---- MODULE Spec2Model ----
(***************************************************************************)
(* A model of the core of CBXShell (src/CBXShell/src).  archive:           *)
(* image-name selection (utils.rs), magic-byte detection, the IStream      *)
(* reader and read_stream_to_memory (stream_reader.rs) and the three ways  *)
(* of opening an archive (mod.rs).  image_processor: detection of the      *)
(* image format (magic.rs).  utils: the debug log (debug_log.rs).          *)
(*                                                                         *)
(* File names and paths are sequences of one-character strings, byte       *)
(* buffers are sequences of numbers in 0..255.                             *)
(***************************************************************************)
EXTENDS Integers, Sequences, FiniteSets, TLC

VARIABLES
    names,      \* find_first_image: the listing handed in (utils.rs:44)
    sort,       \* find_first_image: the sort flag (utils.rs:45)
    result,     \* find_first_image: the returned Option<String>
    called,     \* find_first_image has returned
    scanned,    \* find_first_image: how many names it took from the iterator and kept
    data,       \* detect_archive_type_from_bytes: the buffer handed in
    detected,   \* detect_archive_type_from_bytes: the returned Result<ArchiveType>
    detectCalled, \* detect_archive_type_from_bytes has returned
    file,       \* the archive being opened: its path, bytes, real format, members
    sortImages, \* the sort flag the caller passes (config::should_sort_images)
    handles,    \* per way of opening: the handle and what its calls returned
    temp,       \* per way of opening: the temporary file the RAR backend stages
    format,     \* detect_image_format: the returned Result<ImageFormat>
    formatCalled, \* detect_image_format has returned
    entryName,  \* is_image_file: the name handed in
    isImage,    \* is_image_file: the returned bool, None before the call
    cmpNames,   \* natural_sort_cmp: the three names that are compared
    orderings,  \* natural_sort_cmp: the returned Ordering of each pair
    stream,     \* the IStream: its length, its cursor, and the cursor at IStreamReader::new
    reader,     \* IStreamReader: the position it tracks
    last,       \* IStreamReader: the last call, what it found and what it returned
    rsm,        \* read_stream_to_memory: its locals and where it stands
    threads,    \* debug_log: where each calling thread stands
    LOG_MUTEX,  \* debug_log: the mutex, its holder (0 when free) and poison flag
    logFile     \* debug_log: what the log file holds, write by write

findVars == <<names, sort, result, called, scanned>>

detectVars == <<data, detected, detectCalled>>

archiveVars == <<file, sortImages, handles, temp>>

imageVars == <<format, formatCalled>>

nameVars == <<entryName, isImage>>

compareVars == <<cmpNames, orderings>>

streamVars == <<stream, reader, last>>

readVars == <<rsm>>

logVars == <<threads, LOG_MUTEX, logFile>>

vars == <<names, sort, result, called, scanned, data, detected, detectCalled,
          file, sortImages, handles, temp, format, formatCalled, entryName, isImage,
          cmpNames, orderings, stream, reader, last, rsm,
          threads, LOG_MUTEX, logFile>>

\* What the actions of one specification leave alone.
OutsideFind ==
    <<detectVars, archiveVars, imageVars, nameVars, compareVars, streamVars,
      readVars, logVars>>

OutsideDetect ==
    <<findVars, archiveVars, nameVars, compareVars, streamVars, readVars, logVars>>

OutsideArchive ==
    <<findVars, detectVars, imageVars, nameVars, compareVars, streamVars,
      readVars, logVars>>

OutsideName ==
    <<findVars, detectVars, archiveVars, imageVars, compareVars, streamVars,
      readVars, logVars>>

OutsideCompare ==
    <<findVars, detectVars, archiveVars, imageVars, nameVars, streamVars,
      readVars, logVars>>

OutsideStream ==
    <<findVars, detectVars, archiveVars, imageVars, nameVars, compareVars,
      readVars, logVars>>

OutsideRead ==
    <<findVars, detectVars, archiveVars, imageVars, nameVars, compareVars,
      streamVars, logVars>>

OutsideLog ==
    <<findVars, detectVars, archiveVars, imageVars, nameVars, compareVars,
      streamVars, readVars>>

-----------------------------------------------------------------------------
(* Bounds of the model.                                                    *)

\* Longest listing handed to find_first_image.
MaxListing == 3

\* Longest buffer handed to detect_archive_type_from_bytes.
MaxBufLen == 10

\* Most members of an archive.
MaxEntries == 2

\* Length in bytes of the well-formed archives (at least 16, see Contents).
ArchiveLen == 18

-----------------------------------------------------------------------------
(* Characters.  The model's character set is printable ASCII; Ord gives a  *)
(* character's code point, the order char::cmp uses.  The double quote,   *)
(* backslash and backtick are written QUOTE, BACKSLASH and BACKTICK.       *)

Ascii ==
    <<" ", "!", "QUOTE", "#", "$", "%", "&", "'", "(", ")", "*", "+", ",", "-", ".", "/",
      "0", "1", "2", "3", "4", "5", "6", "7", "8", "9", ":", ";", "<", "=", ">", "?",
      "@", "A", "B", "C", "D", "E", "F", "G", "H", "I", "J", "K", "L", "M", "N", "O",
      "P", "Q", "R", "S", "T", "U", "V", "W", "X", "Y", "Z", "[", "BACKSLASH", "]", "^", "_",
      "BACKTICK", "a", "b", "c", "d", "e", "f", "g", "h", "i", "j", "k", "l", "m", "n", "o",
      "p", "q", "r", "s", "t", "u", "v", "w", "x", "y", "z", "{", "|", "}", "~">>

OrdTable == [c \in {Ascii[i] : i \in 1..Len(Ascii)} |->
                31 + (CHOOSE i \in 1..Len(Ascii) : Ascii[i] = c)]

Ord(c) == OrdTable[c]

\* char::to_ascii_lowercase / the ASCII part of str::to_lowercase
ToLower(c) == IF Ord(c) >= Ord("A") /\ Ord(c) <= Ord("Z")
              THEN Ascii[Ord(c) + 32 - 31]
              ELSE c

LowerStr(s) == [i \in 1..Len(s) |-> ToLower(s[i])]

\* char::to_digit(10): the digit's value, or -1 for None
ToDigit(c) == IF Ord(c) >= Ord("0") /\ Ord(c) <= Ord("9")
              THEN Ord(c) - Ord("0")
              ELSE -1

\* char::is_whitespace, on printable ASCII
IsWhitespace(c) == c = " "

\* Option<T>
None == [some |-> FALSE]
Some(x) == [some |-> TRUE, val |-> x]

\* Result<T, CbxError>: Err carries the error's variant and its payload.
Ok(x) == [ok |-> TRUE, val |-> x]
Err(kind, detail) == [ok |-> FALSE, kind |-> kind, detail |-> detail]

\* The value of a result variable before the call returned.
NotCalled == [ok |-> FALSE, kind |-> "NotCalled", detail |-> ""]

\* The first n elements of s (all of s when it is shorter).
Take(s, n) == SubSeq(s, 1, IF n < Len(s) THEN n ELSE Len(s))

Front(s) == SubSeq(s, 1, Len(s) - 1)
Last(s) == s[Len(s)]

-----------------------------------------------------------------------------
(* std::path::Path on the build's target (Windows): '/' and '\' separate   *)
(* components, trailing separators and "." components are dropped.         *)

IsSep(c) == c \in {"/", "BACKSLASH"}

\* The path without its trailing separators and trailing "." components.
RECURSIVE StripTrailing(_)
StripTrailing(p) ==
    IF p = <<>> THEN p
    ELSE IF IsSep(Last(p)) THEN StripTrailing(Front(p))
    ELSE IF Len(p) >= 2 /\ Last(p) = "." /\ IsSep(p[Len(p) - 1])
         THEN StripTrailing(Front(p))
    ELSE p

\* The characters after the last separator.
RECURSIVE LastComponent(_)
LastComponent(p) ==
    IF p = <<>> \/ IsSep(Last(p)) THEN <<>>
    ELSE Append(LastComponent(Front(p)), Last(p))

\* Path::file_name: the final normal component, None for "", ".", ".." and roots.
FileName(p) ==
    LET c == LastComponent(StripTrailing(p))
    IN  IF c = <<>> \/ c = <<".">> \/ c = <<".", ".">> THEN None ELSE Some(c)

\* Index of the last '.' of s, 0 when there is none.
RECURSIVE LastDot(_)
LastDot(s) ==
    IF s = <<>> THEN 0
    ELSE IF Last(s) = "." THEN Len(s)
    ELSE LastDot(Front(s))

\* Path::extension: what follows the last '.' of the file name; None when the
\* file name has no '.', or only a leading one.
Extension(p) ==
    LET f == FileName(p)
    IN  IF ~f.some THEN None
        ELSE LET d == LastDot(f.val)
             IN  IF d <= 1 THEN None
                 ELSE Some(SubSeq(f.val, d + 1, Len(f.val)))

-----------------------------------------------------------------------------
(* utils.rs                                                                *)

IMAGE_EXTENSIONS ==
    { <<"b","m","p">>, <<"i","c","o">>, <<"g","i","f">>,
      <<"j","p","g">>, <<"j","p","e">>, <<"j","f","i","f">>, <<"j","p","e","g">>,
      <<"p","n","g">>,
      <<"t","i","f">>, <<"t","i","f","f">>,
      <<"w","e","b","p">>,
      <<"a","v","i","f">> }

\* A mutant of is_image_file that compares the extension as it is written.
is_image_file_case_sensitive(name) ==
    LET ext == Extension(name)
    IN  IF ext.some THEN ext.val \in IMAGE_EXTENSIONS ELSE FALSE

is_image_file(name) ==
    LET ext == Extension(name)
    IN  IF ext.some THEN LowerStr(ext.val) \in IMAGE_EXTENSIONS ELSE FALSE

\* Ordering of two values that are ordered by <
Cmp(x, y) == IF x < y THEN "Less" ELSE IF x > y THEN "Greater" ELSE "Equal"

\* First index at or after i that holds no whitespace (Len + 1 at the end).
RECURSIVE SkipWs(_, _)
SkipWs(s, i) ==
    IF i <= Len(s) /\ IsWhitespace(s[i]) THEN SkipWs(s, i + 1) ELSE i

\* The digit at s[i], -1 when i is past the end or s[i] is no digit.
DigitAt(s, i) == IF i <= Len(s) THEN ToDigit(s[i]) ELSE -1

(* natord::compare(a, b), the comparison natural_sort_cmp delegates to:    *)
(* whitespace is skipped before each comparison step; two digit runs are   *)
(* compared left-aligned when either starts with 0 and right-aligned       *)
(* (longer run greater, else first differing digit) otherwise; any other   *)
(* pair of characters is compared by code point.  i and j are the read     *)
(* positions in a and b.                                                   *)
RECURSIVE NatNonDigits(_, _, _, _)
RECURSIVE NatDigitsLeft(_, _, _, _)
RECURSIVE NatDigitsRight(_, _, _, _, _)

NatDigitsLeft(a, b, i, j) ==
    LET ll == DigitAt(a, i)
        rr == DigitAt(b, j)
    IN  IF ll >= 0 /\ rr >= 0
        THEN IF ll # rr THEN Cmp(ll, rr) ELSE NatDigitsLeft(a, b, i + 1, j + 1)
        ELSE IF ll >= 0 THEN "Greater"
        ELSE IF rr >= 0 THEN "Less"
        ELSE NatNonDigits(a, b, i, j)

NatDigitsRight(a, b, i, j, lastcmp) ==
    LET ll == DigitAt(a, i)
        rr == DigitAt(b, j)
    IN  IF ll >= 0 /\ rr >= 0
        THEN NatDigitsRight(a, b, i + 1, j + 1,
                            IF lastcmp = "Equal" THEN Cmp(ll, rr) ELSE lastcmp)
        ELSE IF ll >= 0 THEN "Greater"
        ELSE IF rr >= 0 THEN "Less"
        ELSE IF lastcmp # "Equal" THEN lastcmp
        ELSE NatNonDigits(a, b, i, j)

\* A mutant of the 'nondigits loop that looks for a leading zero in the
\* right-hand run only.
NatNonDigits_right_zero(a, b, i0, j0) ==
    LET i == SkipWs(a, i0)
        j == SkipWs(b, j0)
    IN  IF i <= Len(a) /\ j <= Len(b)
        THEN LET ll == ToDigit(a[i])
                 rr == ToDigit(b[j])
             IN  IF ll >= 0 /\ rr >= 0
                 THEN IF rr = 0
                      THEN IF ll # rr THEN Cmp(ll, rr)
                           ELSE NatDigitsLeft(a, b, i + 1, j + 1)
                      ELSE NatDigitsRight(a, b, i + 1, j + 1, Cmp(ll, rr))
                 ELSE IF a[i] # b[j] THEN Cmp(Ord(a[i]), Ord(b[j]))
                 ELSE NatNonDigits(a, b, i + 1, j + 1)
        ELSE IF i <= Len(a) THEN "Greater"
        ELSE IF j <= Len(b) THEN "Less"
        ELSE "Equal"

NatNonDigits(a, b, i0, j0) ==
    LET i == SkipWs(a, i0)
        j == SkipWs(b, j0)
    IN  IF i <= Len(a) /\ j <= Len(b)
        THEN LET ll == ToDigit(a[i])
                 rr == ToDigit(b[j])
             IN  IF ll >= 0 /\ rr >= 0
                 THEN IF ll = 0 \/ rr = 0
                      THEN IF ll # rr THEN Cmp(ll, rr)
                           ELSE NatDigitsLeft(a, b, i + 1, j + 1)
                      ELSE NatDigitsRight(a, b, i + 1, j + 1, Cmp(ll, rr))
                 ELSE IF a[i] # b[j] THEN Cmp(Ord(a[i]), Ord(b[j]))
                 ELSE NatNonDigits(a, b, i + 1, j + 1)
        ELSE IF i <= Len(a) THEN "Greater"
        ELSE IF j <= Len(b) THEN "Less"
        ELSE "Equal"

natural_sort_cmp(a, b) == NatNonDigits(a, b, 1, 1)

\* One step of the stable insertion sort slice::sort_by runs on a short
\* slice: x moves left past every element it is Less than.
RECURSIVE InsertTail(_, _)
InsertTail(s, x) ==
    IF s = <<>> \/ natural_sort_cmp(x, Last(s)) # "Less"
    THEN Append(s, x)
    ELSE Append(InsertTail(Front(s), x), Last(s))

RECURSIVE SortBy(_)
SortBy(s) == IF s = <<>> THEN <<>> ELSE InsertTail(SortBy(Front(s)), Last(s))

\* Mutants of find_first_image: one that never sorts, one that always sorts,
\* one that does not filter.
find_first_image_unsorted(listing, doSort) ==
    LET images == SelectSeq(listing, is_image_file)
    IN  IF images = <<>> THEN None ELSE Some(images[1])

find_first_image_sorted(listing, doSort) ==
    LET images == SelectSeq(listing, is_image_file)
    IN  IF images = <<>> THEN None ELSE Some(SortBy(images)[1])

find_first_image_unfiltered(listing, doSort) ==
    LET sorted == IF doSort THEN SortBy(listing) ELSE listing
    IN  IF listing = <<>> THEN None ELSE Some(sorted[1])

find_first_image(listing, doSort) ==
    LET images == SelectSeq(listing, is_image_file)
        sorted == IF doSort THEN SortBy(images) ELSE images
    IN  IF images = <<>> THEN None ELSE Some(sorted[1])

\* What names.filter(..).collect() does to the iterator before anything is
\* returned: collect() takes every name from it, and keeps the image names.
find_first_image_scan(listing, doSort) ==
    [examined |-> Len(listing),
     collected |-> Len(SelectSeq(listing, is_image_file))]

-----------------------------------------------------------------------------
(* The names the listings are drawn from.                                  *)

Page == <<"p","a","g","e">>
Jpg == <<".","j","p","g">>

Readme == <<"r","e","a","d","m","e",".","t","x","t">>
Page1 == Page \o <<"1">> \o Jpg
Page2 == Page \o <<"2">> \o Jpg
Page10 == Page \o <<"1","0">> \o Jpg

FileNames ==
    { <<"r","e","a","d","m","e",".","t","x","t">>,
      Page \o <<"1","0">> \o Jpg,
      Page \o <<"2">> \o Jpg,
      Page \o <<"1">> \o Jpg,
      Page \o <<" ","1">> \o Jpg,
      Page \o <<"0","2">> \o Jpg,
      <<"A",".","P","N","G">>,
      <<"c","o","v","e","r","s",".","j","p","g","/">>,
      <<".","j","p","g">>,
      <<"n","o","e","x","t">> }

RECURSIVE SeqsUpTo(_, _)
SeqsUpTo(S, n) ==
    IF n = 0 THEN {<<>>}
    ELSE LET shorter == SeqsUpTo(S, n - 1)
         IN  shorter \cup {Append(s, x) : s \in {t \in shorter : Len(t) = n - 1}, x \in S}

Listings == SeqsUpTo(FileNames, MaxListing)

-----------------------------------------------------------------------------
(* stream_reader.rs: detection of the archive type from magic bytes.       *)

ZIP_LOCAL == <<80, 75, 3, 4>>                       \* PK 03 04
ZIP_CENTRAL == <<80, 75, 5, 6>>                     \* PK 05 06
ZIP_SPANNED == <<80, 75, 7, 8>>                     \* PK 07 08
SEVENZ_MAGIC == <<55, 122, 188, 175, 39, 28>>       \* 7z BC AF 27 1C
RAR4_MAGIC == <<82, 97, 114, 33, 26, 7, 0>>         \* Rar! 1A 07 00
RAR5_MAGIC == <<82, 97, 114, 33, 26, 7, 1, 0>>      \* Rar! 1A 07 01 00

TooShort == Err("UnsupportedFormat", "Data too short")
Unrecognized == Err("UnsupportedFormat", "Unrecognized archive format")

\* Mutants of detect_archive_type_from_bytes: one that matches RAR by its
\* six-byte prefix, one without the length check.
detect_archive_type_from_bytes_prefix(buf) ==
    IF Len(buf) < 8 THEN TooShort
    ELSE IF Len(buf) >= 4 /\ SubSeq(buf, 1, 4) \in {ZIP_LOCAL, ZIP_CENTRAL, ZIP_SPANNED}
         THEN Ok("Zip")
    ELSE IF Len(buf) >= 6 /\ SubSeq(buf, 1, 6) = SEVENZ_MAGIC THEN Ok("SevenZip")
    ELSE IF Len(buf) >= 6 /\ SubSeq(buf, 1, 6) = SubSeq(RAR4_MAGIC, 1, 6) THEN Ok("Rar")
    ELSE Unrecognized

detect_archive_type_from_bytes_unguarded(buf) ==
    IF Len(buf) >= 4 /\ SubSeq(buf, 1, 4) \in {ZIP_LOCAL, ZIP_CENTRAL, ZIP_SPANNED}
    THEN Ok("Zip")
    ELSE IF Len(buf) >= 6 /\ SubSeq(buf, 1, 6) = SEVENZ_MAGIC THEN Ok("SevenZip")
    ELSE IF Len(buf) >= 7 /\ SubSeq(buf, 1, 7) = RAR4_MAGIC THEN Ok("Rar")
    ELSE IF Len(buf) >= 8 /\ SubSeq(buf, 1, 8) = RAR5_MAGIC THEN Ok("Rar")
    ELSE Unrecognized

detect_archive_type_from_bytes(buf) ==
    IF Len(buf) < 8 THEN TooShort
    ELSE IF Len(buf) >= 4 /\ SubSeq(buf, 1, 4) \in {ZIP_LOCAL, ZIP_CENTRAL, ZIP_SPANNED}
         THEN Ok("Zip")
    ELSE IF Len(buf) >= 6 /\ SubSeq(buf, 1, 6) = SEVENZ_MAGIC THEN Ok("SevenZip")
    ELSE IF Len(buf) >= 7 /\ SubSeq(buf, 1, 7) = RAR4_MAGIC THEN Ok("Rar")
    ELSE IF Len(buf) >= 8 /\ SubSeq(buf, 1, 8) = RAR5_MAGIC THEN Ok("Rar")
    ELSE Unrecognized

-----------------------------------------------------------------------------
(* mod.rs: archive types, handles and the three ways of opening.           *)

Modes == {"path", "memory", "stream"}

Zip == <<"z","i","p">>
Cbz == <<"c","b","z">>
Epub == <<"e","p","u","b">>
Phz == <<"p","h","z">>
Rar == <<"r","a","r">>
Cbr == <<"c","b","r">>
SevenZ == <<"7","z">>
Cb7 == <<"c","b","7">>

\* ArchiveType::from_extension
from_extension(ext) ==
    LET lower == LowerStr(ext)
    IN  IF lower \in {Zip, Cbz, Epub, Phz} THEN Some("Zip")
        ELSE IF lower \in {Rar, Cbr} THEN Some("Rar")
        ELSE IF lower \in {SevenZ, Cb7} THEN Some("SevenZip")
        ELSE None

\* A handle slot before any open.
NoHandle ==
    [state |-> "none", backend |-> "none", attempted |-> "none",
     error |-> NotCalled, ioFault |-> FALSE, listing |-> <<>>,
     found |-> NotCalled, extracted |-> NotCalled, readStarted |-> FALSE]

\* What the caller holds after an open that returned Err(e); attempted is
\* the backend whose open was tried, "none" when none was.
Failed(e, attempted, ioFault) ==
    [NoHandle EXCEPT !.state = "failed", !.error = e, !.attempted = attempted,
                     !.ioFault = ioFault]

\* The type each backend struct reports from archive_type().
BackendType(backend) ==
    CASE backend \in {"ZipArchive", "ZipArchiveFromMemory", "ZipArchiveFromStream"}
            -> "Zip"
      [] backend \in {"RarArchive", "RarArchiveFromMemory"} -> "Rar"
      [] backend \in {"SevenZipArchive", "SevenZipArchiveFromMemory",
                      "SevenZipArchiveFromStream"} -> "SevenZip"
      [] OTHER -> "none"

\* Archive::archive_type
archive_type(h) == BackendType(h.backend)

\* Whether a backend decoder finds a well-formed archive of its format when
\* it reads the source from offset pos.  The ZIP decoder locates the central
\* directory from the end of the source; the RAR backend stages the source
\* from the cursor on into a temporary file, and the 7z decoder reads the
\* source through its one cursor.
BackendAccepts(backend, f, pos) ==
    /\ f.format = BackendType(backend)
    /\ (pos = 0 \/ BackendType(backend) = "Zip")

\* <Backend>::open / ::new: Box<dyn Archive> or an archive-layer error.
BackendOpen(backend, f, pos) ==
    IF BackendAccepts(backend, f, pos)
    THEN [NoHandle EXCEPT !.state = "live", !.backend = backend,
                          !.attempted = backend, !.listing = f.members]
    ELSE Failed(Err("Archive", "backend"), backend, FALSE)

\* The match of open_archive, with a mutant that pairs Rar with the 7z backend.
PathBackend_swapped(t) ==
    CASE t = "Zip" -> "ZipArchive"
      [] t = "Rar" -> "SevenZipArchive"
      [] t = "SevenZip" -> "RarArchive"

PathBackend(t) ==
    CASE t = "Zip" -> "ZipArchive"
      [] t = "Rar" -> "RarArchive"
      [] t = "SevenZip" -> "SevenZipArchive"

\* The match of open_archive_from_memory.
MemoryBackend(t) ==
    CASE t = "Zip" -> "ZipArchiveFromMemory"
      [] t = "SevenZip" -> "SevenZipArchiveFromMemory"
      [] t = "Rar" -> "RarArchiveFromMemory"

\* The match of open_archive_from_stream.
StreamBackend(t) ==
    CASE t = "Zip" -> "ZipArchiveFromStream"
      [] t = "Rar" -> "RarArchiveFromMemory"
      [] t = "SevenZip" -> "SevenZipArchiveFromStream"

\* A mutant of open_archive: a path without extension is treated as one
\* with the empty extension.
open_archive_empty_default(f) ==
    LET extension == Extension(f.path)
        ext == IF extension.some THEN extension.val ELSE <<>>
        archive_type_ == from_extension(ext)
    IN  IF ~archive_type_.some
        THEN Failed(Err("UnsupportedFormat", ext), "none", FALSE)
        ELSE BackendOpen(PathBackend(archive_type_.val), f, 0)

open_archive(f) ==
    LET extension == Extension(f.path)
    IN  IF ~extension.some THEN Failed(Err("InvalidPath", <<>>), "none", FALSE)
        ELSE LET archive_type_ == from_extension(extension.val)
             IN  IF ~archive_type_.some
                 THEN Failed(Err("UnsupportedFormat", extension.val), "none", FALSE)
                 ELSE BackendOpen(PathBackend(archive_type_.val), f, 0)

open_archive_from_memory(f) ==
    LET archive_type_ == detect_archive_type_from_bytes(f.bytes)
    IN  IF ~archive_type_.ok THEN Failed(archive_type_, "none", FALSE)
        ELSE BackendOpen(MemoryBackend(archive_type_.val), f, 0)

\* Read::read_exact of n bytes at pos: the bytes and the new position, or
\* an error when the source ends first or the read fails.
ReadExact(bytes, pos, n, fails) ==
    IF fails \/ pos + n > Len(bytes) THEN [ok |-> FALSE]
    ELSE [ok |-> TRUE, buf |-> SubSeq(bytes, pos + 1, pos + n), pos |-> pos + n]

\* Seek::seek(SeekFrom::Start(n)) from pos: the new position, or an error.
SeekStart(pos, n, fails) ==
    IF fails THEN [ok |-> FALSE, pos |-> pos] ELSE [ok |-> TRUE, pos |-> n]

\* A mutant of open_archive_from_stream: no seek back to the beginning.
open_archive_from_stream_no_seek(f, fault) ==
    LET magic == ReadExact(f.bytes, 0, 16, fault = "read")
    IN  IF ~magic.ok
        THEN Failed(Err("Archive", "Failed to read magic bytes"), "none", fault = "read")
        ELSE LET archive_type_ == detect_archive_type_from_bytes(magic.buf)
             IN  IF ~archive_type_.ok THEN Failed(archive_type_, "none", FALSE)
                 ELSE BackendOpen(StreamBackend(archive_type_.val), f, magic.pos)

\* open_archive_from_stream on a reader at offset 0; fault names the reader
\* call that fails, if any.
open_archive_from_stream(f, fault) ==
    LET magic == ReadExact(f.bytes, 0, 16, fault = "read")
    IN  IF ~magic.ok
        THEN Failed(Err("Archive", "Failed to read magic bytes"), "none", fault = "read")
        ELSE LET archive_type_ == detect_archive_type_from_bytes(magic.buf)
                 back == SeekStart(magic.pos, 0, fault = "seek")
             IN  IF ~archive_type_.ok THEN Failed(archive_type_, "none", FALSE)
                 ELSE IF ~back.ok
                 THEN Failed(Err("Archive", "Failed to seek to start"), "none", TRUE)
                 ELSE BackendOpen(StreamBackend(archive_type_.val), f, back.pos)

\* MAX_ENTRY_SIZE, with a mutant that counts the megabyte as 10^6 bytes.
MAX_ENTRY_SIZE_decimal == 32 * 1000 * 1000

MAX_ENTRY_SIZE == 32 * 1024 * 1024

\* ArchiveEntry
Entry(name, size, is_directory) ==
    [name |-> name, size |-> size, is_directory |-> is_directory]

EntryNames(entries) == [i \in 1..Len(entries) |-> entries[i].name]

IsFile(entry) == ~entry.is_directory

\* A mutant of Archive::find_first_image that looks at directory entries too.
Archive_find_first_image_with_directories(h, doSort) ==
    LET name == find_first_image(EntryNames(h.listing), doSort)
    IN  IF ~name.some THEN Err("NoImageFound", "")
        ELSE Ok(h.listing[CHOOSE i \in 1..Len(h.listing) :
                            /\ h.listing[i].name = name.val
                            /\ \A j \in 1..(i - 1) : h.listing[j].name # name.val])

\* Archive::find_first_image: the members that are not directories are
\* listed, the name is selected by utils::find_first_image, and the first
\* member of that name is returned.
Archive_find_first_image(h, doSort) ==
    LET files == SelectSeq(h.listing, IsFile)
        name == find_first_image(EntryNames(files), doSort)
    IN  IF ~name.some THEN Err("NoImageFound", "")
        ELSE Ok(files[CHOOSE i \in 1..Len(files) :
                        /\ files[i].name = name.val
                        /\ \A j \in 1..(i - 1) : files[j].name # name.val])

\* Archive::extract_entry: the size guard, then the read of the entry's
\* bytes (given by the member they belong to and their length).
Archive_extract_entry(h, entry) ==
    IF entry.size > MAX_ENTRY_SIZE
    THEN [h EXCEPT !.extracted = Err("EntryTooLarge", "")]
    ELSE [h EXCEPT !.readStarted = TRUE,
                   !.extracted = Ok([of |-> entry.name, len |-> entry.size])]

\* The temporary file of a handle: "none" when there never was one, "exists",
\* "deleted", or "left" when its deletion failed.
NoTemp == [m \in Modes |-> "none"]

\* The best-effort deletion of the temporary file: a failure is ignored.
Removed(deleted) == IF deleted THEN "deleted" ELSE "left"

\* RarArchiveFromMemory::new and ::new_from_stream, given the handle h that
\* the dispatch and the RAR decoder produce: the source is staged into a
\* temporary file that the handle owns; staging names the step that fails
\* ("create": no file comes to exist, "write": the file exists and is cut
\* short), and whatever was built before a failure is destroyed.
RarArchiveFromMemory_new(h, staging, deleted) ==
    IF h.attempted # "RarArchiveFromMemory" THEN [handle |-> h, temp |-> "none"]
    ELSE IF staging = "create"
    THEN [handle |-> Failed(Err("Archive", "temp file"), h.attempted, TRUE),
          temp |-> "none"]
    ELSE IF staging = "write"
    THEN [handle |-> Failed(Err("Archive", "temp file"), h.attempted, TRUE),
          temp |-> Removed(deleted)]
    ELSE [handle |-> h,
          temp |-> IF h.state = "live" THEN "exists" ELSE Removed(deleted)]

\* A mutant of the teardown that never deletes the temporary file.
RarArchiveFromMemory_drop_keeps(t, deleted) == t

\* Drop of the handle: the temporary file, if there is one, is deleted.
RarArchiveFromMemory_drop(t, deleted) ==
    IF t = "exists" THEN Removed(deleted) ELSE t

-----------------------------------------------------------------------------
(* The buffers detection is applied to: each signature and an unrelated    *)
(* header, padded, with at most one of the first eight bytes replaced, cut *)
(* to every length up to MaxBufLen.                                        *)

UNKNOWN_HEADER == <<85, 78, 75, 78, 79, 87, 78, 0>>  \* "UNKNOWN\0"

Headers ==
    {ZIP_LOCAL, ZIP_CENTRAL, ZIP_SPANNED, SEVENZ_MAGIC, RAR4_MAGIC, RAR5_MAGIC,
     UNKNOWN_HEADER}

\* s followed by 20 00 00 ... up to length n.
Pad(s, n) == [i \in 1..n |-> IF i <= Len(s) THEN s[i]
                              ELSE IF i = Len(s) + 1 THEN 20 ELSE 0]

ByteSamples == {0, 1, 8, 255}

Replaced(s, p, v) == [i \in 1..Len(s) |-> IF i = p THEN v ELSE s[i]]

Buffers ==
    { Take(Replaced(Pad(h, MaxBufLen), p, v), n) :
        h \in Headers, p \in 1..8, v \in ByteSamples, n \in 0..MaxBufLen }
    \cup { Take(Pad(h, MaxBufLen), n) : h \in Headers, n \in 0..MaxBufLen }

-----------------------------------------------------------------------------
(* The variables of one specification keep these values in the others.     *)

FindIdle ==
    /\ names = <<>>
    /\ sort = FALSE
    /\ result = None
    /\ called = FALSE
    /\ scanned = [examined |-> 0, collected |-> 0]

DetectIdle ==
    /\ data = <<>>
    /\ detected = NotCalled
    /\ detectCalled = FALSE

ArchiveIdle ==
    /\ file = [path |-> <<>>, bytes |-> <<>>, format |-> "none", members |-> <<>>]
    /\ sortImages = FALSE
    /\ handles = [m \in Modes |-> NoHandle]
    /\ temp = NoTemp

ImageIdle ==
    /\ format = NotCalled
    /\ formatCalled = FALSE

NameIdle ==
    /\ entryName = <<>>
    /\ isImage = None

CompareIdle ==
    /\ cmpNames = <<>>
    /\ orderings = <<>>

StreamIdle ==
    /\ stream = [len |-> 0, cursor |-> 0, start |-> 0]
    /\ reader = [position |-> 0]
    /\ last = [op |-> "none"]

ReadIdle == rsm = [pc |-> "idle"]

LogIdle ==
    /\ threads = <<>>
    /\ LOG_MUTEX = [holder |-> 0, poisoned |-> FALSE]
    /\ logFile = <<>>

OutsideFindIdle ==
    /\ DetectIdle /\ ArchiveIdle /\ ImageIdle /\ NameIdle /\ CompareIdle
    /\ StreamIdle /\ ReadIdle /\ LogIdle

OutsideDetectIdle ==
    /\ FindIdle /\ ArchiveIdle /\ NameIdle /\ CompareIdle
    /\ StreamIdle /\ ReadIdle /\ LogIdle

OutsideArchiveIdle ==
    /\ FindIdle /\ DetectIdle /\ ImageIdle /\ NameIdle /\ CompareIdle
    /\ StreamIdle /\ ReadIdle /\ LogIdle

OutsideNameIdle ==
    /\ FindIdle /\ DetectIdle /\ ArchiveIdle /\ ImageIdle /\ CompareIdle
    /\ StreamIdle /\ ReadIdle /\ LogIdle

OutsideCompareIdle ==
    /\ FindIdle /\ DetectIdle /\ ArchiveIdle /\ ImageIdle /\ NameIdle
    /\ StreamIdle /\ ReadIdle /\ LogIdle

OutsideStreamIdle ==
    /\ FindIdle /\ DetectIdle /\ ArchiveIdle /\ ImageIdle /\ NameIdle
    /\ CompareIdle /\ ReadIdle /\ LogIdle

OutsideReadIdle ==
    /\ FindIdle /\ DetectIdle /\ ArchiveIdle /\ ImageIdle /\ NameIdle
    /\ CompareIdle /\ StreamIdle /\ LogIdle

OutsideLogIdle ==
    /\ FindIdle /\ DetectIdle /\ ArchiveIdle /\ ImageIdle /\ NameIdle
    /\ CompareIdle /\ StreamIdle /\ ReadIdle

-----------------------------------------------------------------------------
(* Specification SpecFind: find_first_image applied to a listing.          *)

InitFind ==
    /\ OutsideFindIdle
    /\ names \in Listings
    /\ sort \in BOOLEAN
    /\ result = None
    /\ called = FALSE
    /\ scanned = [examined |-> 0, collected |-> 0]

FindFirstImage ==
    /\ ~called
    /\ result' = find_first_image(names, sort)
    /\ scanned' = find_first_image_scan(names, sort)
    /\ called' = TRUE
    /\ UNCHANGED <<names, sort, OutsideFind>>

NextFind == FindFirstImage

SpecFind == InitFind /\ [][NextFind]_vars

-----------------------------------------------------------------------------
(* Specification SpecDetect: detect_archive_type_from_bytes applied to a   *)
(* buffer.                                                                 *)

InitDetect ==
    /\ OutsideDetectIdle
    /\ ImageIdle
    /\ data \in Buffers
    /\ detected = NotCalled
    /\ detectCalled = FALSE

DetectArchiveType ==
    /\ ~detectCalled
    /\ detected' = detect_archive_type_from_bytes(data)
    /\ detectCalled' = TRUE
    /\ UNCHANGED <<data, imageVars, OutsideDetect>>

NextDetect == DetectArchiveType

SpecDetect == InitDetect /\ [][NextDetect]_vars

-----------------------------------------------------------------------------
(* The archives that are opened.  A file is its path, its bytes, the       *)
(* format its bytes really are in ("none" when no decoder accepts them)    *)
(* and the members a decoder of that format lists.  A well-formed archive  *)
(* of any of the three formats is at least 16 bytes long.                  *)

A(ext) == <<"a", ".">> \o ext

Paths ==
    { A(Zip), A(<<"C","B","Z">>), A(Epub), A(Phz), A(Rar), A(<<"C","b","r">>),
      A(SevenZ), A(<<"7","Z">>), A(Cb7),
      A(<<"t","x","t">>), A(<<"z","i","p","x">>),
      <<"a">>, <<"a", ".">>, <<".", "z", "i", "p">>,
      <<"d", ".", "z", "i", "p", "/", "a">>,
      A(Zip) \o <<"/">> }

Contents ==
    \* well-formed archives
    { [bytes |-> Pad(h, ArchiveLen), format |-> "Zip"] :
        h \in {ZIP_LOCAL, ZIP_CENTRAL, ZIP_SPANNED} }
    \cup { [bytes |-> Pad(SEVENZ_MAGIC, ArchiveLen), format |-> "SevenZip"] }
    \cup { [bytes |-> Pad(h, ArchiveLen), format |-> "Rar"] : h \in {RAR4_MAGIC, RAR5_MAGIC} }
    \* a ZIP behind a stub (the decoder finds its directory from the end)
    \cup { [bytes |-> Pad(UNKNOWN_HEADER, ArchiveLen), format |-> "Zip"] }
    \* damaged, cut short, unrelated and empty content
    \cup { [bytes |-> Pad(h, n), format |-> "none"] :
             h \in {ZIP_LOCAL, RAR4_MAGIC}, n \in {4, 7, 8, 15, ArchiveLen} }
    \cup { [bytes |-> Pad(UNKNOWN_HEADER, ArchiveLen), format |-> "none"],
           [bytes |-> <<>>, format |-> "none"] }

CoversDir == Entry(<<"c","o","v","e","r","s",".","j","p","g","/">>, 0, TRUE)
BigPng == Entry(<<"A",".","P","N","G">>, 32 * 1024 * 1024 + 1, FALSE)

Members ==
    { Entry(Page10, 1, FALSE),
      Entry(Page2, 32 * 1024 * 1024, FALSE),
      BigPng,
      CoversDir }

MakeFile(path, content, members) ==
    [path |-> path, bytes |-> content.bytes, format |-> content.format,
     members |-> IF content.format = "none" THEN <<>> ELSE members]

\* Every path with every content, opened with sorting on; and every member
\* list in one archive of each format, opened with either sort flag.
DispatchFiles ==
    { MakeFile(p, c, <<Entry(Page10, 1, FALSE)>>) : p \in Paths, c \in Contents }

ListingFiles ==
    { MakeFile(pc[1], [bytes |-> Pad(pc[2], ArchiveLen), format |-> pc[3]], ms) :
        pc \in { <<A(Cbz), ZIP_LOCAL, "Zip">>, <<A(Cbr), RAR5_MAGIC, "Rar">>,
                 <<A(Cb7), SEVENZ_MAGIC, "SevenZip">> },
        ms \in SeqsUpTo(Members, MaxEntries) }

Inputs ==
    { <<f, TRUE>> : f \in DispatchFiles } \cup (ListingFiles \X BOOLEAN)

-----------------------------------------------------------------------------
(* Specification SpecArchive: one archive opened by path, from memory and  *)
(* from a stream; each handle is asked for its first image, the entry is   *)
(* extracted, and the handle is dropped.                                   *)

InitArchive ==
    /\ OutsideArchiveIdle
    /\ temp = NoTemp
    /\ \E input \in Inputs : file = input[1] /\ sortImages = input[2]
    /\ handles = [m \in Modes |-> NoHandle]

OpenArchive ==
    /\ handles["path"].state = "none"
    /\ handles' = [handles EXCEPT !["path"] = open_archive(file)]
    /\ UNCHANGED <<file, sortImages, temp, OutsideArchive>>

\* The steps of staging a temporary file that can fail, and whether a
\* deletion succeeds.
Stagings == {"ok", "create", "write"}

OpenArchiveFromMemory ==
    /\ handles["memory"].state = "none"
    /\ \E staging \in Stagings, deleted \in BOOLEAN :
          LET opened == RarArchiveFromMemory_new(open_archive_from_memory(file),
                                                 staging, deleted)
          IN  /\ handles' = [handles EXCEPT !["memory"] = opened.handle]
              /\ temp' = [temp EXCEPT !["memory"] = opened.temp]
    /\ UNCHANGED <<file, sortImages, OutsideArchive>>

OpenArchiveFromStream ==
    /\ handles["stream"].state = "none"
    /\ \E fault \in {"none", "read", "seek"}, staging \in Stagings,
          deleted \in BOOLEAN :
          LET opened == RarArchiveFromMemory_new(open_archive_from_stream(file, fault),
                                                 staging, deleted)
          IN  /\ handles' = [handles EXCEPT !["stream"] = opened.handle]
              /\ temp' = [temp EXCEPT !["stream"] = opened.temp]
    /\ UNCHANGED <<file, sortImages, OutsideArchive>>

FindFirstImageIn(m) ==
    /\ handles[m].state = "live"
    /\ handles[m].found = NotCalled
    /\ handles' = [handles EXCEPT ![m].found =
                        Archive_find_first_image(handles[m], sortImages)]
    /\ UNCHANGED <<file, sortImages, temp, OutsideArchive>>

ExtractEntry(m) ==
    /\ handles[m].state = "live"
    /\ handles[m].found.ok
    /\ handles[m].extracted = NotCalled
    /\ handles' = [handles EXCEPT ![m] =
                        Archive_extract_entry(handles[m], handles[m].found.val)]
    /\ UNCHANGED <<file, sortImages, temp, OutsideArchive>>

\* The caller drops the handle; the entry and the bytes it received stay.
Drop(m) ==
    /\ handles[m].state = "live"
    /\ handles' = [handles EXCEPT ![m].state = "dropped"]
    /\ \E deleted \in BOOLEAN :
          temp' = [temp EXCEPT ![m] = RarArchiveFromMemory_drop(temp[m], deleted)]
    /\ UNCHANGED <<file, sortImages, OutsideArchive>>

NextArchive ==
    \/ OpenArchive
    \/ OpenArchiveFromMemory
    \/ OpenArchiveFromStream
    \/ \E m \in Modes : FindFirstImageIn(m)
    \/ \E m \in Modes : ExtractEntry(m)
    \/ \E m \in Modes : Drop(m)

SpecArchive == InitArchive /\ [][NextArchive]_vars

-----------------------------------------------------------------------------
(* Properties of find_first_image (utils.rs), checked under SpecFind.      *)

\* The indices of the listing that hold an image name.
ImageIndices == {i \in 1..Len(names) : is_image_file(names[i])}

\* C1: with sort = true the returned name is a listed image name that no
\* listed image name is Less than under natural_sort_cmp; the listing
\* readme.txt, page10.jpg, page2.jpg, page1.jpg yields page1.jpg.
C1_SortedReturnsMinimum ==
    (called /\ sort /\ ImageIndices # {}) =>
        /\ result.some
        /\ \E i \in ImageIndices : names[i] = result.val
        /\ \A i \in ImageIndices : natural_sort_cmp(names[i], result.val) # "Less"
        /\ (names = <<Readme, Page10, Page2, Page1>> => result = Some(Page1))
        /\ (names = <<Page10, Page2>> => result = Some(Page2))

C1_Witness ==
    /\ called /\ sort
    /\ names = <<Page10, Page2, Page1>>
    /\ result = Some(Page1)

\* C2: with sort = false the returned name is the listed image name of
\* smallest index: every name before it is not an image name; the listing
\* readme.txt, page10.jpg, page2.jpg yields page10.jpg.
C2_UnsortedReturnsFirstListed ==
    (called /\ ~sort /\ ImageIndices # {}) =>
        /\ result.some
        /\ \E i \in ImageIndices :
              /\ names[i] = result.val
              /\ \A j \in 1..(i - 1) : ~is_image_file(names[j])
        /\ (names = <<Readme, Page10, Page2>> => result = Some(Page10))

C2_Witness ==
    /\ called /\ ~sort
    /\ names = <<Readme, Page10, Page2>>
    /\ result = Some(Page10)

\* C3: for both values of sort the result is None exactly when no listed
\* name is an image name (the empty listing included), and a returned name
\* is a listed image name.
C3_NoneIffNoImage ==
    called =>
        /\ (result = None) <=> (ImageIndices = {})
        /\ result.some => \E i \in ImageIndices : names[i] = result.val
        /\ (names = <<>> => result = None)

C3_Witness ==
    /\ called
    /\ names = <<Readme, <<"n","o","e","x","t">>>>
    /\ result = None

-----------------------------------------------------------------------------
(* Properties of detect_archive_type_from_bytes, checked under SpecDetect. *)

HasZipHeader(buf) ==
    \/ Take(buf, 4) = <<80, 75, 3, 4>>
    \/ Take(buf, 4) = <<80, 75, 5, 6>>
    \/ Take(buf, 4) = <<80, 75, 7, 8>>

HasSevenZipMagic(buf) == Take(buf, 6) = <<55, 122, 188, 175, 39, 28>>

HasRarSignature(buf) ==
    \/ Take(buf, 7) = <<82, 97, 114, 33, 26, 7, 0>>
    \/ Take(buf, 8) = <<82, 97, 114, 33, 26, 7, 1, 0>>

\* C7: on a buffer of at least 8 bytes the result is Zip exactly for the
\* three PK headers, SevenZip exactly for the 7z magic, Rar exactly for the
\* complete RAR4 or RAR5 signature, and UnsupportedFormat otherwise.
C7_DetectsExactlyTheSignatures ==
    (detectCalled /\ Len(data) >= 8) =>
        /\ (detected = Ok("Zip")) <=> HasZipHeader(data)
        /\ (detected = Ok("SevenZip")) <=> HasSevenZipMagic(data)
        /\ (detected = Ok("Rar")) <=> HasRarSignature(data)
        /\ (~detected.ok) <=>
              ~(HasZipHeader(data) \/ HasSevenZipMagic(data) \/ HasRarSignature(data))
        /\ ~detected.ok => detected.kind = "UnsupportedFormat"

\* A RAR5 signature with its last byte wrong is not RAR.
C7_Witness ==
    /\ detectCalled
    /\ data = <<82, 97, 114, 33, 26, 7, 1, 1, 20, 0>>
    /\ detected = Unrecognized

\* C8: on a buffer shorter than 8 bytes the call fails with the too-short
\* error, also when the buffer holds a complete signature.
C8_ShortBufferFails ==
    (detectCalled /\ Len(data) < 8) => detected = TooShort

\* The complete seven-byte RAR4 signature and nothing else.
C8_Witness ==
    /\ detectCalled
    /\ data = <<82, 97, 114, 33, 26, 7, 0>>
    /\ detected = TooShort

-----------------------------------------------------------------------------
(* Properties of the archive handles, checked under SpecArchive.           *)

\* The handles that were returned by an open.
Returned(h) == h.state \in {"live", "dropped"}

\* C4: a directory-marker member is never the result of find_first_image,
\* for either value of sort, also when its name ends in an image extension;
\* an archive that holds only such members has no image.
C4_DirectoryNeverReturned ==
    \A m \in Modes :
        LET h == handles[m]
        IN  /\ h.found.ok =>
                  /\ ~h.found.val.is_directory
                  /\ h.found.val # CoversDir
                  /\ \E i \in 1..Len(file.members) :
                        file.members[i] = h.found.val /\ ~file.members[i].is_directory
            /\ (h.found # NotCalled /\ \A i \in 1..Len(file.members) :
                                           file.members[i].is_directory)
                  => h.found = Err("NoImageFound", "")

\* The directory covers.jpg/ is listed first and sorts first; page10.jpg is found.
C4_Witness ==
    /\ file.members = <<CoversDir, Entry(Page10, 1, FALSE)>>
    /\ \A m \in Modes : handles[m].found = Ok(Entry(Page10, 1, FALSE))

\* C5: extract_entry answers EntryTooLarge, without starting to read the
\* entry, exactly when the entry's declared size is above 33,554,432 bytes;
\* what it returns is never longer than that.
C5_SizeGuard ==
    \A m \in Modes :
        LET h == handles[m]
        IN  /\ h.extracted = NotCalled => ~h.readStarted
            /\ h.extracted # NotCalled =>
                  /\ h.found.val.size > 33554432 =>
                        h.extracted = Err("EntryTooLarge", "") /\ ~h.readStarted
                  /\ h.found.val.size <= 33554432 =>
                        h.extracted.ok /\ h.readStarted
                  /\ h.extracted.ok => h.extracted.val.len <= 33554432

C5_Witness ==
    /\ sortImages
    /\ handles["path"].found = Ok(BigPng)
    /\ handles["path"].extracted = Err("EntryTooLarge", "")
    /\ ~handles["path"].readStarted

ExtensionType(ext) ==
    LET lower == LowerStr(ext)
    IN  IF lower \in { <<"z","i","p">>, <<"c","b","z">>, <<"e","p","u","b">>,
                       <<"p","h","z">> } THEN "Zip"
        ELSE IF lower \in { <<"r","a","r">>, <<"c","b","r">> } THEN "Rar"
        ELSE IF lower \in { <<"7","z">>, <<"c","b","7">> } THEN "SevenZip"
        ELSE "none"

\* The archive type the leading bytes stand for.
MagicType(buf) ==
    IF Len(buf) < 8 THEN "none"
    ELSE IF HasZipHeader(buf) THEN "Zip"
    ELSE IF HasSevenZipMagic(buf) THEN "SevenZip"
    ELSE IF HasRarSignature(buf) THEN "Rar"
    ELSE "none"

\* The type detection arrives at in each way of opening.
DetectedType(m) ==
    IF m = "path"
    THEN IF Extension(file.path).some THEN ExtensionType(Extension(file.path).val)
         ELSE "none"
    ELSE IF m = "memory" THEN MagicType(file.bytes)
    ELSE IF Len(file.bytes) >= 16 THEN MagicType(Take(file.bytes, 16)) ELSE "none"

\* C9: a backend is constructed only when detection gave a type, it is the
\* backend of that type, and a live handle reports that type in every state.
C9_BackendMatchesDetectedType ==
    \A m \in Modes :
        LET h == handles[m]
        IN  /\ h.attempted # "none" =>
                  /\ DetectedType(m) # "none"
                  /\ BackendType(h.attempted) = DetectedType(m)
            /\ h.state = "live" =>
                  /\ h.backend = h.attempted
                  /\ archive_type(h) = DetectedType(m)
            /\ h.state # "live" => h.backend = "none" \/ h.state = "dropped"

\* a.Cbr holding a RAR archive, opened by path and asked for its image.
C9_Witness ==
    /\ file.path = <<"a", ".", "C", "b", "r">>
    /\ handles["path"].state = "live"
    /\ handles["path"].found # NotCalled
    /\ archive_type(handles["path"]) = "Rar"
    /\ handles["stream"].state = "live"
    /\ archive_type(handles["stream"]) = "Rar"

\* C10: open_archive answers InvalidPath when the path has no extension and
\* UnsupportedFormat with the extension when the extension is none of the
\* eight known ones; in both cases no backend open is tried and no handle
\* is returned; a known extension is rejected in neither way.
C10_PathErrors ==
    LET h == handles["path"]
        ext == Extension(file.path)
    IN  h.state # "none" =>
          /\ ~ext.some =>
                /\ h.state = "failed"
                /\ h.error = Err("InvalidPath", <<>>)
                /\ h.attempted = "none"
          /\ (ext.some /\ ExtensionType(ext.val) = "none") =>
                /\ h.state = "failed"
                /\ h.error = Err("UnsupportedFormat", ext.val)
                /\ h.attempted = "none"
          /\ (ext.some /\ ExtensionType(ext.val) # "none") => h.attempted # "none"
          /\ file.path \in {<<"a">>, <<".", "z", "i", "p">>} =>
                h.error = Err("InvalidPath", <<>>)
          /\ file.path = <<"a", ".">> => h.error = Err("UnsupportedFormat", <<>>)

\* A path without extension whose content is a well-formed ZIP archive.
C10_Witness ==
    /\ file.path = <<"a">>
    /\ file.format = "Zip"
    /\ handles["path"].state = "failed"
    /\ handles["path"].error = Err("InvalidPath", <<>>)
    /\ handles["memory"].state = "live"

-----------------------------------------------------------------------------
(* The temporary file of the RAR backend, checked under SpecArchive.       *)

\* The handle came from RarArchiveFromMemory::new or ::new_from_stream.
StagesTemp(h) == h.attempted = "RarArchiveFromMemory"

\* C19: a RAR handle opened from memory or from a stream has its temporary
\* file for as long as it is live; once the handle is dropped, or the open
\* has failed, the file is gone or its deletion was tried and failed, and
\* that failure shows in nothing the caller received; no other handle ever
\* has a temporary file.
C19_TempFileLifetime ==
    \A m \in Modes :
        LET h == handles[m]
        IN  /\ (StagesTemp(h) /\ h.state = "live") => temp[m] = "exists"
            /\ h.state \in {"none", "dropped", "failed"} => temp[m] # "exists"
            /\ ~StagesTemp(h) => temp[m] = "none"
            /\ h.state = "dropped" => h.error = NotCalled
            /\ (h.state = "failed" /\ StagesTemp(h) /\ temp[m] = "left")
                  => h.error \in {Err("Archive", "temp file"), Err("Archive", "backend")}

\* A RAR handle from a stream was dropped after a failed find_first_image
\* and the deletion of its temporary file failed; the open from memory
\* failed after its file was created, and that file was deleted.
C19_Witness ==
    /\ handles["stream"].state = "dropped"
    /\ StagesTemp(handles["stream"])
    /\ handles["stream"].found = Err("NoImageFound", "")
    /\ temp["stream"] = "left"
    /\ handles["memory"].state = "failed"
    /\ StagesTemp(handles["memory"])
    /\ temp["memory"] = "deleted"

-----------------------------------------------------------------------------
(* magic.rs: detection of the image format from the first bytes.           *)

JPEG_MAGIC == <<255, 216, 255>>                     \* FF D8 FF
PNG_MAGIC == <<137, 80, 78, 71, 13, 10, 26, 10>>    \* 89 P N G 0D 0A 1A 0A
GIF_MAGIC == <<71, 73, 70, 56>>                     \* GIF8
BMP_MAGIC == <<66, 77>>                             \* BM
TIFF_LE_MAGIC == <<73, 73, 42, 0>>                  \* II 2A 00
TIFF_BE_MAGIC == <<77, 77, 0, 42>>                  \* MM 00 2A
ICO_MAGIC == <<0, 0, 1, 0>>
RIFF == <<82, 73, 70, 70>>                          \* RIFF
WEBP == <<87, 69, 66, 80>>                          \* WEBP
FTYP == <<102, 116, 121, 112>>                      \* ftyp
AVIF_BRAND == <<97, 118, 105, 102>>                 \* avif
AVIS_BRAND == <<97, 118, 105, 115>>                 \* avis

\* const MIN_BYTES
MIN_BYTES == 4

\* The three errors of detect_image_format, all CbxError::Image; the length
\* and the bytes that the messages quote are left out.
EmptyData == Err("Image", "Empty data")
InsufficientData == Err("Image", "Insufficient data for format detection")
UnrecognizedImage == Err("Image", "Unrecognized image format")

\* data.len() >= sig.len() && data[..sig.len()] == sig
StartsWith(buf, sig) == Len(buf) >= Len(sig) /\ SubSeq(buf, 1, Len(sig)) = sig

IsJpeg(buf) == Len(buf) >= 3 /\ StartsWith(buf, JPEG_MAGIC)

IsPng(buf) == Len(buf) >= 8 /\ StartsWith(buf, PNG_MAGIC)

IsGif(buf) == Len(buf) >= 4 /\ StartsWith(buf, GIF_MAGIC)

IsBmp(buf) == Len(buf) >= 2 /\ StartsWith(buf, BMP_MAGIC)

IsTiff(buf) ==
    Len(buf) >= 4 /\ (StartsWith(buf, TIFF_LE_MAGIC) \/ StartsWith(buf, TIFF_BE_MAGIC))

IsIco(buf) == Len(buf) >= 4 /\ StartsWith(buf, ICO_MAGIC)

\* A mutant of the WebP check that looks at the RIFF tag alone.
IsWebP_riff_only(buf) == Len(buf) >= 12 /\ StartsWith(buf, RIFF)

IsWebP(buf) ==
    Len(buf) >= 12 /\ StartsWith(buf, RIFF) /\ SubSeq(buf, 9, 12) = WEBP

\* One round of "for offset in [4, 8, 0]".
AvifBoxAt(buf, offset) ==
    /\ offset + 12 <= Len(buf)
    /\ SubSeq(buf, offset + 1, offset + 4) = FTYP
    /\ \/ SubSeq(buf, offset + 5, offset + 8) = AVIF_BRAND
       \/ SubSeq(buf, offset + 5, offset + 8) = AVIS_BRAND

\* The search for "ftypavif" at the offsets below 32 of a buffer of at
\* least 32 bytes.
AvifSearch(buf) ==
    /\ Len(buf) >= 32
    /\ \E i \in 0..(Len(buf) - 8) :
          i < 32 /\ SubSeq(buf, i + 1, i + 8) = FTYP \o AVIF_BRAND

IsAvif(buf) ==
    /\ Len(buf) >= 12
    /\ \/ \E offset \in {4, 8, 0} : AvifBoxAt(buf, offset)
       \/ AvifSearch(buf)

\* The checks of detect_image_format in their order, the first match wins.
MatchSignature(buf) ==
    IF IsJpeg(buf) THEN Ok("Jpeg")
    ELSE IF IsPng(buf) THEN Ok("Png")
    ELSE IF IsGif(buf) THEN Ok("Gif")
    ELSE IF IsBmp(buf) THEN Ok("Bmp")
    ELSE IF IsTiff(buf) THEN Ok("Tiff")
    ELSE IF IsIco(buf) THEN Ok("Ico")
    ELSE IF IsWebP(buf) THEN Ok("WebP")
    ELSE IF IsAvif(buf) THEN Ok("Avif")
    ELSE UnrecognizedImage

\* A mutant of detect_image_format without the check of MIN_BYTES.
detect_image_format_unguarded(buf) ==
    IF Len(buf) = 0 THEN EmptyData ELSE MatchSignature(buf)

detect_image_format(buf) ==
    IF Len(buf) = 0 THEN EmptyData
    ELSE IF Len(buf) < MIN_BYTES THEN InsufficientData
    ELSE MatchSignature(buf)

-----------------------------------------------------------------------------
(* Specification SpecImage: one buffer classified by detect_image_format   *)
(* and by detect_archive_type_from_bytes.                                  *)

\* Longest buffer handed to detect_image_format.
MaxImageLen == 33

\* The headers of the tests of magic.rs.
MINIMAL_JPEG == <<255, 216, 255, 224, 0, 16, 74, 70>>
MINIMAL_PNG == <<137, 80, 78, 71, 13, 10, 26, 10, 0, 0, 0, 13>>
GIF_HEADER == <<71, 73, 70, 56, 57, 97, 1, 0>>
BMP_HEADER == <<66, 77, 70, 0, 0, 0>>
TIFF_HEADER_LE == <<73, 73, 42, 0, 8, 0>>
TIFF_HEADER_BE == <<77, 77, 0, 42, 0, 8>>
ICO_HEADER == <<0, 0, 1, 0, 1, 0>>
WEBP_HEADER == RIFF \o <<0, 0, 0, 0>> \o WEBP \o <<86, 80, 56, 32>>
AVIF_HEADER == <<0, 0, 0, 24>> \o FTYP \o AVIF_BRAND
NOT_AN_IMAGE == <<84, 104, 105, 115, 32, 105, 115, 32, 110, 111, 116>>

\* n bytes that belong to no signature.
Filler(n) == [i \in 1..n |-> 32]

ImageHeaders ==
    { MINIMAL_JPEG, MINIMAL_PNG, GIF_HEADER, BMP_HEADER, TIFF_HEADER_LE,
      TIFF_HEADER_BE, ICO_HEADER, WEBP_HEADER, AVIF_HEADER, NOT_AN_IMAGE,
      <<0, 0, 0, 24>> \o FTYP \o AVIS_BRAND,
      FTYP \o AVIF_BRAND,
      Filler(8) \o FTYP \o AVIF_BRAND,
      Filler(8) \o FTYP \o AVIS_BRAND,
      Filler(20) \o FTYP \o AVIF_BRAND,
      Filler(20) \o FTYP \o AVIS_BRAND,
      JPEG_MAGIC \o <<224>> \o FTYP \o AVIF_BRAND,
      ICO_MAGIC \o FTYP \o AVIF_BRAND,
      RIFF \o FTYP \o AVIF_BRAND,
      ZIP_LOCAL, RAR5_MAGIC }

ImageBuffers ==
    { Take(Pad(h, MaxImageLen), n) : h \in ImageHeaders, n \in 0..MaxImageLen }
    \cup { Take(Replaced(Pad(h, MaxImageLen), p, v), n) :
             h \in ImageHeaders, p \in 1..12, v \in ByteSamples,
             n \in {3, 4, 8, 12, 16, 20, MaxImageLen} }

InitImage ==
    /\ OutsideDetectIdle
    /\ data \in ImageBuffers
    /\ detected = NotCalled
    /\ detectCalled = FALSE
    /\ format = NotCalled
    /\ formatCalled = FALSE

DetectImageFormat ==
    /\ ~formatCalled
    /\ format' = detect_image_format(data)
    /\ formatCalled' = TRUE
    /\ UNCHANGED <<detectVars, OutsideDetect>>

NextImage ==
    \/ DetectImageFormat
    \/ DetectArchiveType

SpecImage == InitImage /\ [][NextImage]_vars

-----------------------------------------------------------------------------
(* Properties of detect_image_format, checked under SpecImage.             *)

\* The signatures as the format descriptions give them.
HasWebPSignature(buf) ==
    Len(buf) >= 12 /\ StartsWith(buf, RIFF) /\ SubSeq(buf, 9, 12) = WEBP

SignatureFormats(buf) ==
    {f \in {"Jpeg", "Png", "Gif", "Bmp", "Tiff", "Ico", "WebP"} :
        \/ f = "Jpeg" /\ StartsWith(buf, JPEG_MAGIC)
        \/ f = "Png" /\ StartsWith(buf, PNG_MAGIC)
        \/ f = "Gif" /\ StartsWith(buf, GIF_MAGIC)
        \/ f = "Bmp" /\ StartsWith(buf, BMP_MAGIC)
        \/ f = "Tiff" /\ (StartsWith(buf, TIFF_LE_MAGIC) \/ StartsWith(buf, TIFF_BE_MAGIC))
        \/ f = "Ico" /\ StartsWith(buf, ICO_MAGIC)
        \/ f = "WebP" /\ HasWebPSignature(buf)}

\* C11: a buffer of at least 4 bytes that begins with the signature of
\* JPEG, PNG, GIF, BMP, TIFF, ICO or WebP is classified as that format and
\* as no other; one that matches none of them and none of the AVIF checks
\* is an error.
C11_SignatureDecidesFormat ==
    (formatCalled /\ Len(data) >= MIN_BYTES)
        => /\ \A f \in SignatureFormats(data) : format = Ok(f)
           /\ (SignatureFormats(data) = {} /\ ~IsAvif(data)) => format = UnrecognizedImage
           /\ format.ok => format.val \in SignatureFormats(data) \cup {"Avif"}

\* The WebP header of the tests with its tag damaged was classified: an error.
C11_Witness ==
    /\ formatCalled
    /\ Len(data) >= 12
    /\ StartsWith(data, RIFF)
    /\ SubSeq(data, 9, 12) # WEBP
    /\ ~IsAvif(data)
    /\ format = UnrecognizedImage

\* "ftyp" and the brand "avif" or "avis" lie inside the buffer from offset on.
HasAvifBox(buf, offset) ==
    /\ offset + 8 <= Len(buf)
    /\ SubSeq(buf, offset + 1, offset + 8) \in {FTYP \o AVIF_BRAND, FTYP \o AVIS_BRAND}

\* C12, as claimed: a buffer that matches no earlier signature and holds
\* "ftyp" and the brand "avif" or "avis" wholly inside it at offset 0, 4 or
\* 8 is classified as Avif.
C12_AvifBoxDetected ==
    (/\ formatCalled
     /\ SignatureFormats(data) = {}
     /\ \E offset \in {0, 4, 8} : HasAvifBox(data, offset))
        => format = Ok("Avif")

-----------------------------------------------------------------------------
(* Specification SpecName: is_image_file applied to one name.              *)

\* The letters of s in upper case, and s with its first letter in upper case.
ToUpper(c) ==
    IF \E u \in {Ascii[i] : i \in 1..Len(Ascii)} : u # c /\ ToLower(u) = c
    THEN CHOOSE u \in {Ascii[i] : i \in 1..Len(Ascii)} : u # c /\ ToLower(u) = c
    ELSE c

UpperStr(s) == [i \in 1..Len(s) |-> ToUpper(s[i])]

Capitalized(s) == [i \in 1..Len(s) |-> IF i = 1 THEN ToUpper(s[i]) ELSE s[i]]

\* Extensions as they are written in names: the image extensions in three
\* spellings, and extensions that are none.
WrittenExtensions ==
    IMAGE_EXTENSIONS
    \cup { UpperStr(x) : x \in IMAGE_EXTENSIONS }
    \cup { Capitalized(x) : x \in IMAGE_EXTENSIONS }
    \cup { <<"t","x","t">>, <<"z","i","p">>, <<"m","p","4">>, <<"j","p","g","x">>,
           <<"j","p">>, <<>>, <<"j","p","g"," ">>, <<"J","P","G","S">> }

Stems == { <<"a">>, <<>>, <<".">>, <<"a",".","b">>, <<"a",".","p","n","g">>,
           <<"n","o","e","x","t","e","n","s","i","o","n">> }

\* A name alone, inside a directory, and followed by separators and dots.
Placed(n) ==
    { n,
      <<"d", "/">> \o n,
      <<"d", ".", "j", "p", "g", "/">> \o n,
      <<"d", ".", "j", "p", "g", "BACKSLASH">> \o n,
      n \o <<"/">>,
      n \o <<"BACKSLASH">>,
      n \o <<"/", ".">>,
      n \o <<"/", ".", ".">> }

EntryNameSamples ==
    UNION { Placed(st \o <<".">> \o x) : st \in Stems, x \in WrittenExtensions }
    \cup UNION { Placed(st) : st \in Stems }
    \cup UNION { Placed(x) : x \in IMAGE_EXTENSIONS }

InitName ==
    /\ OutsideNameIdle
    /\ entryName \in EntryNameSamples
    /\ isImage = None

IsImageFile ==
    /\ ~isImage.some
    /\ isImage' = Some(is_image_file(entryName))
    /\ UNCHANGED <<entryName, OutsideName>>

NextName == IsImageFile

SpecName == InitName /\ [][NextName]_vars

-----------------------------------------------------------------------------
(* Properties of is_image_file, checked under SpecName.                    *)

\* The final component of the name ends with a '.' that is not its first
\* character, followed by one of the image extensions in any case.
HasImageExtension(n) ==
    LET f == FileName(n)
    IN  /\ f.some
        /\ \E x \in IMAGE_EXTENSIONS :
              /\ Len(f.val) > Len(x) + 1
              /\ f.val[Len(f.val) - Len(x)] = "."
              /\ LowerStr(SubSeq(f.val, Len(f.val) - Len(x) + 1, Len(f.val))) = x

\* C14: is_image_file is true exactly for the names whose final component
\* has one of the twelve image extensions, in any case.
C14_ImageExtensionsOnly ==
    isImage.some => (isImage.val <=> HasImageExtension(entryName))

\* A name with the extension PNG in upper case, inside a directory whose
\* own name ends in .jpg, was found to be an image.
C14_Witness ==
    /\ isImage = Some(TRUE)
    /\ entryName = <<"d", ".", "j", "p", "g", "/", "a", ".", "P", "N", "G">>

-----------------------------------------------------------------------------
(* Specification SpecCompare: natural_sort_cmp applied to the pairs of     *)
(* three names.                                                            *)

\* Longest name made of the characters of CompareAlphabet.
MaxNameLen == 2

CompareAlphabet == {"0", "1", " "}

\* The names of test_natural_sort_cmp, and names with letters, a leading
\* zero and a space.
CompareNames ==
    SeqsUpTo(CompareAlphabet, MaxNameLen)
    \cup { Page1, Page2, Page10,
           Page \o <<"0", "2">> \o Jpg,
           Page \o <<" ", "1">> \o Jpg,
           <<"a","p","p","l","e">> \o Jpg,
           <<"b","a","n","a","n","a">> \o Jpg,
           <<"a", "1">>, <<"1", "a">> }

InitCompare ==
    /\ OutsideCompareIdle
    /\ cmpNames \in CompareNames \X CompareNames \X CompareNames
    /\ orderings = <<>>

\* The comparisons a sort makes among three names a, b and c.
NaturalSortCmp ==
    /\ orderings = <<>>
    /\ LET a == cmpNames[1]
           b == cmpNames[2]
           c == cmpNames[3]
       IN  orderings' = [aa |-> natural_sort_cmp(a, a),
                         ab |-> natural_sort_cmp(a, b),
                         ba |-> natural_sort_cmp(b, a),
                         bc |-> natural_sort_cmp(b, c),
                         ac |-> natural_sort_cmp(a, c)]
    /\ UNCHANGED <<cmpNames, OutsideCompare>>

NextCompare == NaturalSortCmp

SpecCompare == InitCompare /\ [][NextCompare]_vars

-----------------------------------------------------------------------------
(* Properties of natural_sort_cmp, checked under SpecCompare.              *)

IsDigit(c) == ToDigit(c) >= 0

\* The digit run of s that starts at k.
RECURSIVE DigitRun(_, _)
DigitRun(s, k) ==
    IF k <= Len(s) /\ IsDigit(s[k]) THEN <<s[k]>> \o DigitRun(s, k + 1) ELSE <<>>

\* The number a digit run denotes.
RECURSIVE NumericValue(_)
NumericValue(run) ==
    IF run = <<>> THEN 0 ELSE 10 * NumericValue(Front(run)) + ToDigit(Last(run))

\* a and b are equal before k, and a digit run starts at k in both.
DigitRunsMeet(a, b, k) ==
    /\ k <= Len(a) /\ k <= Len(b)
    /\ SubSeq(a, 1, k - 1) = SubSeq(b, 1, k - 1)
    /\ IsDigit(a[k]) /\ IsDigit(b[k])
    /\ (k = 1 \/ ~IsDigit(a[k - 1]))

\* C15, as claimed: of two names that are equal up to a digit run, the one
\* whose run has the smaller numeric value is Less (and the other Greater).
C15_SmallerNumberIsLess ==
    orderings # <<>> =>
        LET a == cmpNames[1]
            b == cmpNames[2]
        IN  \A k \in 1..Len(a) :
                (/\ DigitRunsMeet(a, b, k)
                 /\ NumericValue(DigitRun(a, k)) < NumericValue(DigitRun(b, k)))
                    => orderings.ab = "Less" /\ orderings.ba = "Greater"

Reverse(o) == IF o = "Less" THEN "Greater" ELSE IF o = "Greater" THEN "Less" ELSE o

WithoutWhitespace(s) == SelectSeq(s, LAMBDA c : ~IsWhitespace(c))

-----------------------------------------------------------------------------
(* stream_reader.rs: IStreamReader over an IStream.  The stream is its     *)
(* length and its cursor; what the bytes are plays no part.                *)

Min(x, y) == IF x < y THEN x ELSE y

\* Positions are u64 and seek offsets i64 in the code; the model keeps both
\* at WordBits bits, so that u64 is 0..U64_MAX and i64 is I64_MIN..I64_MAX.
WordBits == 3

U64_MAX == 2^WordBits - 1
I64_MAX == 2^(WordBits - 1) - 1
I64_MIN == 0 - 2^(WordBits - 1)

\* n as i64 and d as u64: the same bits read as the other type.
AsI64(n) == IF n > I64_MAX THEN n - 2^WordBits ELSE n
AsU64(d) == IF d < 0 THEN d + 2^WordBits ELSE d

\* A call made on the underlying stream.
SeekCall(offset, origin) == [call |-> "Seek", offset |-> offset, origin |-> origin]
ReadCall(cb) == [call |-> "Read", cb |-> cb]

\* IStream::Seek(offset, origin, &mut new_position): the cursor moves to
\* the origin plus offset and is reported; with STREAM_SEEK_SET the offset
\* is read as unsigned.  A move before the start or beyond the last
\* position fails, one past the end of the data does not.  fails: the call
\* returns an error HRESULT.
IStream_Seek(st, offset, origin, fails) ==
    LET target == CASE origin = "STREAM_SEEK_SET" -> AsU64(offset)
                    [] origin = "STREAM_SEEK_CUR" -> st.cursor + offset
                    [] origin = "STREAM_SEEK_END" -> st.len + offset
    IN  IF fails \/ target < 0 \/ target > U64_MAX
        THEN [ok |-> FALSE, stream |-> st, new_position |-> 0]
        ELSE [ok |-> TRUE, stream |-> [st EXCEPT !.cursor = target],
              new_position |-> target]

\* The bytes between the cursor and the end of the stream.
Available(st) == IF st.cursor < st.len THEN st.len - st.cursor ELSE 0

\* IStream::Read(buf, cb, &mut bytes_read): the stream delivers between 0
\* and min(cb, available) bytes and moves its cursor past them; when the
\* call fails it may have moved the cursor past some bytes all the same.
IStream_Read(st, cb, delivered, fails) ==
    [ok |-> ~fails,
     stream |-> [st EXCEPT !.cursor = st.cursor + delivered],
     bytes_read |-> IF fails THEN 0 ELSE delivered]

\* IStreamReader::new
IStreamReader_new(st) == [position |-> 0]

IoError(message) == Err("io::ErrorKind::Other", message)

\* A mutant of IStreamReader::size that does not seek back.
IStreamReader_size_no_seek_back(st, rd, fault) ==
    LET toEnd == IStream_Seek(st, 0, "STREAM_SEEK_END", fault = "end")
        issued == <<SeekCall(0, "STREAM_SEEK_END")>>
    IN  IF ~toEnd.ok
        THEN [stream |-> st, reader |-> rd, result |-> IoError("Seek failed"),
              issued |-> issued]
        ELSE [stream |-> toEnd.stream, reader |-> rd,
              result |-> Ok(toEnd.new_position), issued |-> issued]

\* IStreamReader::size; fault names the seek that fails, if any.
IStreamReader_size(st, rd, fault) ==
    LET toEnd == IStream_Seek(st, 0, "STREAM_SEEK_END", fault = "end")
        first == <<SeekCall(0, "STREAM_SEEK_END")>>
    IN  IF ~toEnd.ok
        THEN [stream |-> st, reader |-> rd, result |-> IoError("Seek failed"),
              issued |-> first]
        ELSE LET offset == AsI64(rd.position)
                 back == IStream_Seek(toEnd.stream, offset, "STREAM_SEEK_SET",
                                      fault = "back")
                 both == Append(first, SeekCall(offset, "STREAM_SEEK_SET"))
             IN  IF ~back.ok
                 THEN [stream |-> toEnd.stream, reader |-> rd,
                       result |-> IoError("Seek back failed"), issued |-> both]
                 ELSE [stream |-> back.stream, reader |-> rd,
                       result |-> Ok(toEnd.new_position), issued |-> both]

\* A mutant of Read::read that asks the stream again for what a partial
\* read left out.
IStreamReader_read_topped_up(st, rd, n, delivered, fails) ==
    IF n = 0 THEN [stream |-> st, reader |-> rd, result |-> Ok(0), issued |-> <<>>]
    ELSE LET hr == IStream_Read(st, n, delivered, fails)
             more == IStream_Read(hr.stream, n - hr.bytes_read,
                                  Min(n - hr.bytes_read, Available(hr.stream)), FALSE)
             total == hr.bytes_read + more.bytes_read
         IN  IF ~hr.ok
             THEN [stream |-> hr.stream, reader |-> rd,
                   result |-> IoError("IStream::Read failed"),
                   issued |-> <<ReadCall(n)>>]
             ELSE IF hr.bytes_read = n
             THEN [stream |-> hr.stream,
                   reader |-> [rd EXCEPT !.position = (rd.position + n) % 2^WordBits],
                   result |-> Ok(n), issued |-> <<ReadCall(n)>>]
             ELSE [stream |-> more.stream,
                   reader |-> [rd EXCEPT !.position =
                                  (rd.position + total) % 2^WordBits],
                   result |-> Ok(total),
                   issued |-> <<ReadCall(n), ReadCall(n - hr.bytes_read)>>]

\* Read::read for IStreamReader with a buffer of n bytes.  The addition to
\* the position wraps, as it does in a release build.
IStreamReader_read(st, rd, n, delivered, fails) ==
    IF n = 0 THEN [stream |-> st, reader |-> rd, result |-> Ok(0), issued |-> <<>>]
    ELSE LET hr == IStream_Read(st, n, delivered, fails)
         IN  IF ~hr.ok
             THEN [stream |-> hr.stream, reader |-> rd,
                   result |-> IoError("IStream::Read failed"),
                   issued |-> <<ReadCall(n)>>]
             ELSE [stream |-> hr.stream,
                   reader |-> [rd EXCEPT !.position =
                                  (rd.position + hr.bytes_read) % 2^WordBits],
                   result |-> Ok(hr.bytes_read),
                   issued |-> <<ReadCall(n)>>]

\* SeekFrom
SeekFrom(from, n) == [from |-> from, n |-> n]

\* A mutant of the match in Seek::seek that clamps a Start offset to the
\* largest i64 instead of casting it.
SeekArguments_clamped(pos) ==
    CASE pos.from = "Start" -> SeekCall(Min(pos.n, I64_MAX), "STREAM_SEEK_SET")
      [] pos.from = "End" -> SeekCall(pos.n, "STREAM_SEEK_END")
      [] pos.from = "Current" -> SeekCall(pos.n, "STREAM_SEEK_CUR")

\* The match in Seek::seek: the offset and origin handed to the stream.
SeekArguments(pos) ==
    CASE pos.from = "Start" -> SeekCall(AsI64(pos.n), "STREAM_SEEK_SET")
      [] pos.from = "End" -> SeekCall(pos.n, "STREAM_SEEK_END")
      [] pos.from = "Current" -> SeekCall(pos.n, "STREAM_SEEK_CUR")

\* Seek::seek for IStreamReader.
IStreamReader_seek(st, rd, pos, fails) ==
    LET args == SeekArguments(pos)
        hr == IStream_Seek(st, args.offset, args.origin, fails)
    IN  IF ~hr.ok
        THEN [stream |-> st, reader |-> rd, result |-> IoError("IStream::Seek failed"),
              issued |-> <<args>>]
        ELSE [stream |-> hr.stream,
              reader |-> [rd EXCEPT !.position = hr.new_position],
              result |-> Ok(hr.new_position), issued |-> <<args>>]

-----------------------------------------------------------------------------
(* Specification SpecStream: an IStreamReader is constructed over a        *)
(* stream and read, seek and size are called on it in any order.           *)

\* Longest stream and largest buffer handed to read.
MaxStreamLen == 3
MaxRead == 2

\* SeekFrom::Start takes a u64, SeekFrom::End and SeekFrom::Current an i64.
SeekFroms ==
    { SeekFrom("Start", n) : n \in 0..U64_MAX }
    \cup { SeekFrom(from, d) : from \in {"End", "Current"}, d \in I64_MIN..I64_MAX }

\* What a call was given, what it found, what it asked of the stream and
\* what it returned.  delivered is the byte count of the underlying Read.
Called(op, arg, delivered, r) ==
    [op |-> op, arg |-> arg, delivered |-> delivered,
     result |-> r.result, issued |-> r.issued,
     cursorBefore |-> stream.cursor, positionBefore |-> reader.position]

InitStream ==
    /\ OutsideStreamIdle
    /\ \E len \in 0..MaxStreamLen, cursor \in 0..MaxStreamLen :
          /\ cursor <= len
          /\ stream = [len |-> len, cursor |-> cursor, start |-> cursor]
          /\ reader = IStreamReader_new(stream)
    /\ last = [op |-> "none"]

StreamRead ==
    \E n \in 0..MaxRead, fails \in BOOLEAN :
        \E delivered \in 0..Min(n, Available(stream)) :
            LET r == IStreamReader_read(stream, reader, n, delivered, fails)
            IN  /\ stream' = r.stream
                /\ reader' = r.reader
                /\ last' = Called("read", n, IF fails THEN 0 ELSE delivered, r)
                /\ UNCHANGED OutsideStream

StreamSeek ==
    \E pos \in SeekFroms, fails \in BOOLEAN :
        LET r == IStreamReader_seek(stream, reader, pos, fails)
        IN  /\ stream' = r.stream
            /\ reader' = r.reader
            /\ last' = Called("seek", pos, 0, r)
            /\ UNCHANGED OutsideStream

StreamSize ==
    \E fault \in {"none", "end", "back"} :
        LET r == IStreamReader_size(stream, reader, fault)
        IN  /\ stream' = r.stream
            /\ reader' = r.reader
            /\ last' = Called("size", fault, 0, r)
            /\ UNCHANGED OutsideStream

NextStream ==
    \/ StreamRead
    \/ StreamSeek
    \/ StreamSize

SpecStream == InitStream /\ [][NextStream]_vars

-----------------------------------------------------------------------------
(* Properties of IStreamReader, checked under SpecStream.                  *)

-----------------------------------------------------------------------------
(* stream_reader.rs: read_stream_to_memory.  Sizes go up to 10 GiB, so a   *)
(* byte count is kept as whole MiB and the bytes beyond them.              *)

MiB == 1024 * 1024

\* The byte count mib * 2^20 + rest, where 0 <= rest < 2^20.
Bytes(mib, rest) == [mib |-> mib, rest |-> rest]

BytesGreater(x, y) == x.mib > y.mib \/ (x.mib = y.mib /\ x.rest > y.rest)

\* x + n, for n of at most one MiB.
BytesPlus(x, n) ==
    IF x.rest + n >= MiB THEN Bytes(x.mib + 1, x.rest + n - MiB)
    ELSE Bytes(x.mib, x.rest + n)

\* min(size - total, limit), for a limit of at most one MiB and total <= size.
RemainingUpTo(size, total, limit) ==
    IF size.mib - total.mib >= 2 THEN limit
    ELSE Min((size.mib - total.mib) * MiB + size.rest - total.rest, limit)

\* const MAX_STREAM_SIZE: usize = 10 * 1024 * 1024 * 1024
MAX_STREAM_SIZE == Bytes(10 * 1024, 0)

\* The errors of read_stream_to_memory, all CbxError::Archive; the byte
\* count that one message quotes is left out.
SeekEndFailed == Err("Archive", "Failed to seek to end of stream")
EmptyStream == Err("Archive", "Empty stream")
StreamTooLarge == Err("Archive", "Stream too large")
SeekStartFailed == Err("Archive", "Failed to seek to beginning of stream")
ReadFailed == Err("Archive", "Failed to read from stream")
UnexpectedEndOfStream == Err("Archive", "Unexpected end of stream")

\* A mutant of step 2 that refuses a stream of exactly MAX_STREAM_SIZE.
ValidateSize_inclusive(stream_size) ==
    IF stream_size = Bytes(0, 0) THEN EmptyStream
    ELSE IF ~BytesGreater(MAX_STREAM_SIZE, stream_size) THEN StreamTooLarge
    ELSE Ok(stream_size)

\* Step 2: validate size.
ValidateSize(stream_size) ==
    IF stream_size = Bytes(0, 0) THEN EmptyStream
    ELSE IF BytesGreater(stream_size, MAX_STREAM_SIZE) THEN StreamTooLarge
    ELSE Ok(stream_size)

\* The locals of read_stream_to_memory on a stream of len bytes, before its
\* first step: where it stands (pc), stream_size, total_read, whether the
\* buffer is allocated and how long it is, the Seek calls issued, the Read
\* calls issued so far and the last one's buffer offset, byte count asked
\* for and byte count delivered, and the value returned.
Started(len) ==
    [pc |-> "measure", len |-> len, stream_size |-> Bytes(0, 0),
     total_read |-> Bytes(0, 0), allocated |-> FALSE, buffer_len |-> Bytes(0, 0),
     seeks |-> <<>>, reads |-> 0, offset |-> Bytes(0, 0), to_read |-> 0,
     bytes_read |-> 0, result |-> NotCalled]

Returned_(r, value) == [r EXCEPT !.pc = "done", !.result = value]

\* Steps 1 and 2: seek to the end for the size, validate it.
Measure(r, fails) ==
    LET sought == [r EXCEPT !.seeks = Append(r.seeks, SeekCall(0, "STREAM_SEEK_END"))]
    IN  IF fails THEN Returned_(sought, SeekEndFailed)
        ELSE LET valid == ValidateSize(r.len)
             IN  IF ~valid.ok
                 THEN Returned_([sought EXCEPT !.stream_size = r.len], valid)
                 ELSE [sought EXCEPT !.stream_size = r.len, !.pc = "rewind"]

\* Steps 3 and 4: seek back to the beginning, allocate the buffer.
Rewind(r, fails) ==
    LET sought == [r EXCEPT !.seeks = Append(r.seeks, SeekCall(0, "STREAM_SEEK_SET"))]
    IN  IF fails THEN Returned_(sought, SeekStartFailed)
        ELSE IF r.stream_size = Bytes(0, 0)
        THEN Returned_([sought EXCEPT !.allocated = TRUE], Ok(r.stream_size))
        ELSE [sought EXCEPT !.allocated = TRUE, !.buffer_len = r.stream_size,
                            !.pc = "read"]

\* A mutant of the loop that returns what it has when a Read delivers
\* nothing.
ReadChunk_keeps_partial(r, bytes_read, fails) ==
    LET to_read == RemainingUpTo(r.stream_size, r.total_read, MiB)
        asked == [r EXCEPT !.reads = r.reads + 1, !.offset = r.total_read,
                           !.to_read = to_read,
                           !.bytes_read = IF fails THEN 0 ELSE bytes_read]
    IN  IF fails THEN Returned_(asked, ReadFailed)
        ELSE IF bytes_read = 0 THEN Returned_(asked, Ok(r.total_read))
        ELSE LET total_read == BytesPlus(r.total_read, bytes_read)
             IN  IF BytesGreater(r.stream_size, total_read)
                 THEN [asked EXCEPT !.total_read = total_read]
                 ELSE Returned_([asked EXCEPT !.total_read = total_read],
                                Ok(r.buffer_len))

\* A mutant of the loop that asks again when a Read delivers nothing.
ReadChunk_retries(r, bytes_read, fails) ==
    LET to_read == RemainingUpTo(r.stream_size, r.total_read, MiB)
        asked == [r EXCEPT !.reads = r.reads + 1, !.offset = r.total_read,
                           !.to_read = to_read,
                           !.bytes_read = IF fails THEN 0 ELSE bytes_read]
    IN  IF fails THEN Returned_(asked, ReadFailed)
        ELSE LET total_read == BytesPlus(r.total_read, bytes_read)
             IN  IF BytesGreater(r.stream_size, total_read)
                 THEN [asked EXCEPT !.total_read = total_read]
                 ELSE Returned_([asked EXCEPT !.total_read = total_read],
                                Ok(r.buffer_len))

\* Step 5, one round of the loop: a Read of min(remaining, 1 MiB) bytes
\* into the buffer at total_read that delivers bytes_read of them.
ReadChunk(r, bytes_read, fails) ==
    LET to_read == RemainingUpTo(r.stream_size, r.total_read, MiB)
        asked == [r EXCEPT !.reads = r.reads + 1, !.offset = r.total_read,
                           !.to_read = to_read,
                           !.bytes_read = IF fails THEN 0 ELSE bytes_read]
    IN  IF fails THEN Returned_(asked, ReadFailed)
        ELSE IF bytes_read = 0 THEN Returned_(asked, UnexpectedEndOfStream)
        ELSE LET total_read == BytesPlus(r.total_read, bytes_read)
             IN  IF BytesGreater(r.stream_size, total_read)
                 THEN [asked EXCEPT !.total_read = total_read]
                 ELSE Returned_([asked EXCEPT !.total_read = total_read],
                                Ok(r.buffer_len))

-----------------------------------------------------------------------------
(* Specification SpecRead: read_stream_to_memory on one stream, step by    *)
(* step.                                                                   *)

\* Streams of up to SmallStream bytes deliver any part of what is asked
\* for; longer ones deliver nothing or all of it.
SmallStream == 3

StreamLengths ==
    { Bytes(0, n) : n \in 0..SmallStream }
    \cup { Bytes(0, MiB - 1), Bytes(1, 0), Bytes(1, 1), Bytes(2, 1),
           Bytes(10 * 1024, 0), Bytes(10 * 1024, 1), Bytes(10 * 1024 + 1, 0),
           Bytes(4096 * 1024, 0) }

\* The byte counts a Read that asks for to_read bytes may deliver.
Deliveries(r, to_read) ==
    IF BytesGreater(r.len, Bytes(0, SmallStream)) THEN {0, to_read}
    ELSE 0..to_read

InitRead ==
    /\ OutsideReadIdle
    /\ rsm \in { Started(len) : len \in StreamLengths }

RsmMeasure ==
    /\ rsm.pc = "measure"
    /\ \E fails \in BOOLEAN : rsm' = Measure(rsm, fails)
    /\ UNCHANGED OutsideRead

RsmRewind ==
    /\ rsm.pc = "rewind"
    /\ \E fails \in BOOLEAN : rsm' = Rewind(rsm, fails)
    /\ UNCHANGED OutsideRead

RsmReadChunk ==
    /\ rsm.pc = "read"
    /\ \E fails \in BOOLEAN :
          \E bytes_read \in Deliveries(rsm, RemainingUpTo(rsm.stream_size,
                                                         rsm.total_read, MiB)) :
              rsm' = ReadChunk(rsm, bytes_read, fails)
    /\ UNCHANGED OutsideRead

NextRead ==
    \/ RsmMeasure
    \/ RsmRewind
    \/ RsmReadChunk

SpecRead == InitRead /\ [][NextRead]_vars

-----------------------------------------------------------------------------
(* Properties of read_stream_to_memory, checked under SpecRead.            *)

\* The size has been discovered by the seek to the end.
Measured == rsm.pc \notin {"idle", "measure"} /\ rsm.result # SeekEndFailed

-----------------------------------------------------------------------------
(* utils/debug_log.rs: debug_log.  The log file is the sequence of the     *)
(* pieces written to it; writeln! on a File writes a line piece by piece.  *)

\* static LOG_MUTEX: Mutex<()> = Mutex::new(())
Mutex_new == [holder |-> 0, poisoned |-> FALSE]

\* A mutant in which lock() never waits.
MutexAvailable_always(m) == TRUE

\* lock() goes ahead when no thread holds the mutex.
MutexAvailable(m) == m.holder = 0

\* The guard is dropped: normally, or by a panic that poisons the mutex.
Unlocked(m, panicking) ==
    [holder |-> 0, poisoned |-> m.poisoned \/ panicking]

\* What writeln!(f, "[{}] {}", timestamp, msg) writes, one write each.
LinePieces(msg) == <<"[", "timestamp", "] ", msg, "NEWLINE">>

\* A thread about to call debug_log(msg).
Calling(msg) == [pc |-> "lock", msg |-> msg, written |-> 0, outcome |-> "none"]

\* let _guard = LOG_MUTEX.lock().unwrap(): a poisoned mutex makes the
\* unwrap panic, and the guard inside the error is dropped again.
debug_log_lock(th, m, t) ==
    IF m.poisoned
    THEN [thread |-> [th EXCEPT !.pc = "panicked", !.outcome = "panicked"],
          mutex |-> m]
    ELSE [thread |-> [th EXCEPT !.pc = "open"],
          mutex |-> [m EXCEPT !.holder = t]]

\* The open in create-and-append mode and the timestamp: the open may fail
\* (the error is dropped and the call returns), and a clock before the Unix
\* epoch makes the unwrap of the timestamp panic with the guard held.
OpenOutcomes == {"opened", "open_failed", "clock_before_epoch"}

debug_log_open(th, m, outcome) ==
    IF outcome = "opened"
    THEN [thread |-> [th EXCEPT !.pc = "write"], mutex |-> m]
    ELSE IF outcome = "open_failed"
    THEN [thread |-> [th EXCEPT !.pc = "returned", !.outcome = "open_failed"],
          mutex |-> Unlocked(m, FALSE)]
    ELSE [thread |-> [th EXCEPT !.pc = "panicked", !.outcome = "panicked"],
          mutex |-> Unlocked(m, TRUE)]

\* One write of the line: a failure ends the call with the error dropped;
\* the last piece ends it too.
debug_log_write(th, m, f, fails) ==
    LET pieces == LinePieces(th.msg)
        k == th.written + 1
    IN  IF fails
        THEN [thread |-> [th EXCEPT !.pc = "returned", !.outcome = "write_failed"],
              mutex |-> Unlocked(m, FALSE), file |-> f]
        ELSE IF k = Len(pieces)
        THEN [thread |-> [th EXCEPT !.pc = "returned", !.written = k,
                                    !.outcome = "logged"],
              mutex |-> Unlocked(m, FALSE), file |-> Append(f, pieces[k])]
        ELSE [thread |-> [th EXCEPT !.written = k],
              mutex |-> m, file |-> Append(f, pieces[k])]

-----------------------------------------------------------------------------
(* Specification SpecLog: MaxWriters threads call debug_log once each,     *)
(* every thread with a message of its own, on an empty log file.           *)

MaxWriters == 2

Writers == 1..MaxWriters

\* format!("Thread {} message", i)
Message(i) == "Thread " \o ToString(i) \o " message"

InitLog ==
    /\ OutsideLogIdle
    /\ LOG_MUTEX = Mutex_new
    /\ logFile = <<>>
    /\ threads = [t \in Writers |-> Calling(Message(t))]

Lock(t) ==
    /\ threads[t].pc = "lock"
    /\ MutexAvailable(LOG_MUTEX)
    /\ LET r == debug_log_lock(threads[t], LOG_MUTEX, t)
       IN  /\ threads' = [threads EXCEPT ![t] = r.thread]
           /\ LOG_MUTEX' = r.mutex
    /\ UNCHANGED <<logFile, OutsideLog>>

OpenAppend(t) ==
    /\ threads[t].pc = "open"
    /\ \E outcome \in OpenOutcomes :
          LET r == debug_log_open(threads[t], LOG_MUTEX, outcome)
          IN  /\ threads' = [threads EXCEPT ![t] = r.thread]
              /\ LOG_MUTEX' = r.mutex
    /\ UNCHANGED <<logFile, OutsideLog>>

Write(t) ==
    /\ threads[t].pc = "write"
    /\ \E fails \in BOOLEAN :
          LET r == debug_log_write(threads[t], LOG_MUTEX, logFile, fails)
          IN  /\ threads' = [threads EXCEPT ![t] = r.thread]
              /\ LOG_MUTEX' = r.mutex
              /\ logFile' = r.file
    /\ UNCHANGED OutsideLog

NextLog ==
    \/ \E t \in Writers : Lock(t)
    \/ \E t \in Writers : OpenAppend(t)
    \/ \E t \in Writers : Write(t)

SpecLog == InitLog /\ [][NextLog]_vars

-----------------------------------------------------------------------------
(* Properties of debug_log, checked under SpecLog.                         *)

\* The index of the first NEWLINE of f, 0 when it has none.
FirstNewline(f) ==
    IF \E k \in 1..Len(f) : f[k] = "NEWLINE"
    THEN CHOOSE k \in 1..Len(f) :
            /\ f[k] = "NEWLINE"
            /\ \A j \in 1..(k - 1) : f[j] # "NEWLINE"
    ELSE 0

\* The terminated lines of the file, without their NEWLINE.
RECURSIVE Lines(_)
Lines(f) ==
    IF FirstNewline(f) = 0 THEN <<>>
    ELSE <<SubSeq(f, 1, FirstNewline(f) - 1)>>
            \o Lines(SubSeq(f, FirstNewline(f) + 1, Len(f)))

\* What follows the last NEWLINE.
RECURSIVE Unterminated(_)
Unterminated(f) ==
    IF FirstNewline(f) = 0 THEN f
    ELSE Unterminated(SubSeq(f, FirstNewline(f) + 1, Len(f)))

\* The complete log line of one message.
LogLine(msg) == <<"[", "timestamp", "] ", msg>>

InSection(t) == threads[t].pc \in {"open", "write"}

OneWriterAtATime == Cardinality({ t \in Writers : InSection(t) }) <= 1

Quiet == \A t \in Writers : ~InSection(t)

Completed == { t \in Writers : threads[t].pc = "returned" }

Logged == { t \in Writers : threads[t].outcome = "logged" }

\* The file is exactly one complete line for each thread of the set.
OneLineEach(writers) ==
    /\ Unterminated(logFile) = <<>>
    /\ Len(Lines(logFile)) = Cardinality(writers)
    /\ \A i \in 1..Len(Lines(logFile)) :
          \E t \in writers : Lines(logFile)[i] = LogLine(threads[t].msg)
    /\ \A t \in writers :
          \E i \in 1..Len(Lines(logFile)) :
             Lines(logFile)[i] = LogLine(threads[t].msg)

-----------------------------------------------------------------------------
(* Specification SpecLogFair: SpecLog with every thread's next step taken  *)
(* eventually; a thread waiting for the mutex gets it once it is free,     *)
(* however often other threads take it in between.                         *)

Step(t) == Lock(t) \/ OpenAppend(t) \/ Write(t)

FairLog == \A t \in Writers : SF_vars(Step(t))

SpecLogFair == InitLog /\ [][NextLog]_vars /\ FairLog

\* C21: every debug_log call eventually returns normally, whatever
\* happened to the open, the writes and the other calls.
C21_EveryCallReturns ==
    <>(\A t \in Writers : threads[t].pc = "returned")

-----------------------------------------------------------------------------
(* Further properties of IStreamReader, checked under SpecStream.          *)

\* C22: a read into a non-empty buffer whose underlying read delivers no
\* bytes before the end of the stream returns an error, not Ok(0).
C22_ZeroReadIsError ==
    (/\ last.op = "read"
     /\ last.arg > 0
     /\ last.delivered = 0
     /\ last.cursorBefore < stream.len)
        => ~last.result.ok

\* C23: a read into a non-empty buffer issues exactly one underlying Read;
\* when that succeeds it returns the byte count delivered and advances the
\* tracked position by it, when it fails it returns an error and leaves the
\* tracked position alone; a read into an empty buffer returns 0 and
\* touches neither the stream nor the position.
C23_OneUnderlyingRead ==
    last.op = "read" =>
        /\ last.arg = 0
              => /\ last.result = Ok(0)
                 /\ last.issued = <<>>
                 /\ stream.cursor = last.cursorBefore
                 /\ reader.position = last.positionBefore
        /\ last.arg > 0
              => /\ last.issued = <<ReadCall(last.arg)>>
                 /\ last.result.ok
                       => /\ last.result.val = last.delivered
                          /\ reader.position = last.positionBefore + last.delivered
                 /\ ~last.result.ok
                       => reader.position = last.positionBefore

\* A read of two bytes, with two or more to come, returned the one byte
\* that the stream delivered.
C23_Witness ==
    /\ last.op = "read"
    /\ last.arg = 2
    /\ last.cursorBefore + 2 <= stream.len
    /\ last.delivered = 1
    /\ last.result = Ok(1)
    /\ reader.position = last.positionBefore + 1

\* C26: seek issues exactly one underlying Seek, with origin start, current
\* or end as the SeekFrom says and with the same offset value (for Start
\* the same unsigned value, bit for bit); on success it returns the
\* position the stream reports and records it as the tracked position, on
\* failure it returns an error and leaves the tracked position alone.
C26_SeekTranslation ==
    last.op = "seek" =>
        /\ Len(last.issued) = 1
        /\ last.issued[1].call = "Seek"
        /\ last.arg.from = "Start"
              => /\ last.issued[1].origin = "STREAM_SEEK_SET"
                 /\ AsU64(last.issued[1].offset) = last.arg.n
        /\ last.arg.from = "Current"
              => /\ last.issued[1].origin = "STREAM_SEEK_CUR"
                 /\ last.issued[1].offset = last.arg.n
        /\ last.arg.from = "End"
              => /\ last.issued[1].origin = "STREAM_SEEK_END"
                 /\ last.issued[1].offset = last.arg.n
        /\ last.result.ok
              => /\ last.result.val = stream.cursor
                 /\ reader.position = stream.cursor
        /\ ~last.result.ok
              => reader.position = last.positionBefore

\* A seek to a Start offset above the largest i64 succeeded.
C26_Witness ==
    /\ last.op = "seek"
    /\ last.arg.from = "Start"
    /\ last.arg.n > I64_MAX
    /\ last.result = Ok(last.arg.n)
    /\ reader.position = last.arg.n
    /\ stream.cursor = last.arg.n

\* C29: over a stream whose cursor was at offset 0 at construction, the
\* tracked position equals the cursor of the stream after every call.
C29_PositionTracksCursor ==
    stream.start = 0 => reader.position = stream.cursor

-----------------------------------------------------------------------------
(* Specification SpecReadFair: SpecRead in which every stream call that    *)
(* read_stream_to_memory makes returns, so its next step is taken.         *)

SpecReadFair == InitRead /\ [][NextRead]_vars /\ WF_vars(NextRead)

\* x <= y for byte counts.
BytesAtMost(x, y) == ~BytesGreater(x, y)

\* The buffer is allocated and the read loop has been entered.
Reading == rsm.pc = "read" \/ (rsm.pc = "done" /\ rsm.reads > 0)

\* C24: the loop is entered after one seek to the end and one seek to
\* offset 0, in that order; each Read asks for min(remaining, 1 MiB) bytes
\* at buffer offset total_read; total_read never exceeds the size; a
\* success returns a buffer of exactly size bytes with total_read = size;
\* a Read that delivers nothing fails with the unexpected-end error, and
\* no buffer is returned.
C24_ChunkedRead ==
    /\ Measured => BytesAtMost(rsm.total_read, rsm.stream_size)
    /\ Reading
          => /\ rsm.seeks = <<SeekCall(0, "STREAM_SEEK_END"),
                              SeekCall(0, "STREAM_SEEK_SET")>>
             /\ rsm.allocated
             /\ rsm.buffer_len = rsm.stream_size
    /\ rsm.reads > 0
          => /\ rsm.to_read >= 1
             /\ rsm.to_read <= 1024 * 1024
             /\ BytesAtMost(BytesPlus(rsm.offset, rsm.to_read), rsm.stream_size)
             /\ rsm.to_read < 1024 * 1024
                   => BytesPlus(rsm.offset, rsm.to_read) = rsm.stream_size
             /\ rsm.total_read = BytesPlus(rsm.offset, rsm.bytes_read)
             /\ (rsm.bytes_read = 0 /\ rsm.result # ReadFailed)
                   => rsm.pc = "done" /\ rsm.result = UnexpectedEndOfStream
    /\ (rsm.pc = "done" /\ rsm.result.ok)
          => /\ rsm.result.val = rsm.stream_size
             /\ rsm.total_read = rsm.stream_size
             /\ rsm.bytes_read > 0

\* A stream of 2 MiB and one byte was read in three rounds, the last of
\* them asking for the one byte left at offset 2 MiB.
C24_Witness ==
    /\ rsm.pc = "done"
    /\ rsm.result = Ok(Bytes(2, 1))
    /\ rsm.reads = 3
    /\ rsm.offset = Bytes(2, 0)
    /\ rsm.to_read = 1

\* C25: every round of the loop either ends the call with an error or adds
\* between 1 and the requested count to total_read, so there are never
\* more rounds than bytes read plus one, nor more than size; and when
\* every stream call returns, the call ends.
C25_LoopTerminates ==
    /\ [](rsm.reads > 0
            => /\ BytesAtMost(Bytes(0, rsm.reads), BytesPlus(rsm.total_read, 1))
               /\ BytesAtMost(Bytes(0, rsm.reads), rsm.stream_size)
               /\ rsm.bytes_read <= rsm.to_read
               /\ rsm.bytes_read = 0 => rsm.pc = "done" /\ ~rsm.result.ok)
    /\ <>(rsm.pc = "done")

\* A 3-byte stream was read one byte at a time, in as many rounds as it
\* has bytes.
C25_Witness ==
    /\ rsm.pc = "done"
    /\ rsm.result = Ok(Bytes(0, 3))
    /\ rsm.reads = 3

-----------------------------------------------------------------------------
(* Further properties of find_first_image, checked under SpecFind.         *)

\* The index of the first image name of the listing.
FirstImageIndex == CHOOSE i \in ImageIndices : \A j \in ImageIndices : i <= j

\* C27: with sort = false the scan stops at the first image name: the
\* names taken from the listing are those up to it, and it is the only
\* name collected.
C27_StopsAtFirstImage ==
    (called /\ ~sort /\ ImageIndices # {}) =>
        /\ scanned.examined = FirstImageIndex
        /\ scanned.collected = 1

\* The orders the names of a listing of n names can be listed in.
Orders(n) == { f \in [1..n -> 1..n] : \A i, j \in 1..n : f[i] = f[j] => i = j }

Reordered(listing, f) == [i \in 1..Len(listing) |-> listing[f[i]]]

\* C30: with sort = true every reordering of the listing yields the
\* returned name.
C30_OrderDoesNotMatter ==
    (called /\ sort) =>
        \A f \in Orders(Len(names)) :
            find_first_image(Reordered(names, f), TRUE) = result

-----------------------------------------------------------------------------
(* The detection stage of the opens from memory and from a stream,         *)
(* checked under SpecArchive.                                              *)

\* How the detection stage of an open ended: the archive type whose
\* backend was tried, or the kind of the error returned before any was.
DetectionStage(h) ==
    IF h.attempted # "none" THEN Ok(BackendType(h.attempted))
    ELSE [ok |-> FALSE, kind |-> h.error.kind]

\* The open from a stream ended on a failed call of its reader.
ReaderFailed(h) == h.attempted = "none" /\ h.ioFault

\* C28: unless a call of the reader failed, the detection stage of the
\* open from a stream ends as that of the open from memory does on the same
\* bytes: with the same archive type or the same kind of error.
C28_DetectionAgrees ==
    (/\ handles["memory"].state # "none"
     /\ handles["stream"].state # "none"
     /\ ~ReaderFailed(handles["stream"]))
        => DetectionStage(handles["memory"]) = DetectionStage(handles["stream"])
====
